---------------------------- MODULE Spec2Model ----------------------------
(***************************************************************************)
(* A model of the c4web order / payment / transaction reconciliation code  *)
(* (src/app/data.py, src/app/api.py, src/app/models.py).                   *)
(*                                                                         *)
(* Money is in cents.  Python None is NoId for identifiers, NoStr for      *)
(* strings and 0 for user ids.  An order id "ORDER-<ts>-<seq>" is the pair *)
(* <<ts, seq>>: strftime gives a fixed-width stamp and ":04d" is a minimum *)
(* width, so the string determines the pair and the pair the string.  An   *)
(* explicit gateway transaction id is a 1-tuple such as <<"T1">>.          *)
(*                                                                         *)
(* A request handler runs on a worker (a thread of one server process).    *)
(* Its steps are its accesses to the store: the place where another        *)
(* request, or a store outage, can come in between.                        *)
(***************************************************************************)
EXTENDS Integers, Sequences, FiniteSets, TLC

VARIABLES
    orders,        \* table orders: order id -> row
    transactions,  \* table transactions: set of rows
    payments,      \* table payments: set of rows
    users,         \* table users: set of rows
    storeUp,       \* the database accepts reads and writes
    fkEnforced,    \* the backend enforces FOREIGN KEY (MySQL) or not (SQLite default)
    now,           \* datetime.utcnow(), in seconds
    orderSeq,      \* per process: the next value of _ORDER_SEQUENCE
    pc,            \* per worker: where its handler stands
    req,           \* per worker: the locals of the running handler
    result,        \* per worker: how its last handler ended
    orderCalls     \* log of finished create_order_record calls

vars == <<orders, transactions, payments, users, storeUp, fkEnforced, now, orderSeq,
          pc, req, result, orderCalls>>

store == <<orders, transactions, payments>>

-----------------------------------------------------------------------------
(* Bounds of the model *)

MaxTxns == 2
MaxPayments == 2
MaxOrderCalls == 2
MaxOrders == 1
MaxTime == 1
MaxUsers == 2

-----------------------------------------------------------------------------
(* Values *)

NoId == <<>>
NoStr == "<None>"
UnknownOrder == <<0, 0>>
NoReq == [op |-> "none"]
NoResult == [op |-> "none", outcome |-> "none"]

Workers == {"w1", "w2", "w3"}
Procs == {"p1", "p2"}
ProcOf(w) == IF w = "w3" THEN "p2" ELSE "p1"

TranIds == {<<"T1">>}

\* DEFAULT_SERVICES, by primary key in seed order, price in cents
ServicePrice == <<999, 2999, 11999, 8999, 5999>>
ServiceIds == DOMAIN ServicePrice

AllowedStatuses == {"pending", "processing", "paid", "cancelled", "refunded", "failed"}

\* str.lower() on the status strings the model sends
Lower(s) ==
    CASE s = "SUCCESS" -> "success"
      [] s = "Success" -> "success"
      [] s = "PAID" -> "paid"
      [] s = "Failed" -> "failed"
      [] s = "Refunded" -> "refunded"
      [] OTHER -> s

\* an identifier that is the empty string
EmptyId == <<"">>

\* None and "" are false
Truthy(id) == id \notin {NoId, EmptyId}

\* Python's `a or b` on identifiers
OrElse(a, b) == IF Truthy(a) THEN a ELSE b

-----------------------------------------------------------------------------
(* The store's constraints (models.py) *)

\* a transactions table without the unique index on tran_id
TranIdTaken_NoUnique(tid) == FALSE

\* Transaction.tran_id: unique=True, nullable: NULLs never collide
TranIdTaken(tid) == tid # NoId /\ \E t \in transactions : t.tran_id = tid

\* Payment.gateway_reference: unique=True, nullable
GatewayRefTaken(ref) == ref # NoId /\ \E p \in payments : p.gateway_reference = ref

\* ForeignKey("orders.id") on a nullable column
OrderFkBroken(oid) == fkEnforced /\ oid # NoId /\ oid \notin DOMAIN orders

\* Order.id: primary key
OrderIdTaken(oid) == oid \in DOMAIN orders

NextTxnId == Cardinality(transactions) + 1
NextPaymentId == Cardinality(payments) + 1

\* the model's cap on the payments table, counting the handlers about to write one
PaymentRoom ==
    Cardinality(payments) + Cardinality({w \in Workers : pc[w] \in {"pay_lookup", "pay_commit"}})
        < MaxPayments

-----------------------------------------------------------------------------
(* How a handler goes on to its next store access, and how it ends *)

Start(w, at, locals) ==
    /\ pc' = [pc EXCEPT ![w] = at]
    /\ req' = [req EXCEPT ![w] = locals]
    /\ result' = [result EXCEPT ![w] = NoResult]

Finish(w, r) ==
    /\ pc' = [pc EXCEPT ![w] = "idle"]
    /\ req' = [req EXCEPT ![w] = NoReq]
    /\ result' = [result EXCEPT ![w] = r]

-----------------------------------------------------------------------------
(* Gateway callback payloads: a dict with the keys the code probes *)

Dec(c) == [kind |-> "dec", v |-> c]
AmountAbsent == [kind |-> "absent", v |-> 0]
AmountBad == [kind |-> "bad", v |-> 0]

Payload(oid, tid, amt, st) ==
    [order_id |-> oid, orderId |-> NoId, orderID |-> NoId,
     tran_id |-> tid, transaction_id |-> NoId, transactionId |-> NoId, trans_id |-> NoId,
     amount |-> amt, status |-> st]

\* payload["timestamp"]: an ISO-8601 string of time t, a string that
\* datetime.fromisoformat refuses, a value that is no string
IsoT(t) == [kind |-> "iso", v |-> t]
BadT == [kind |-> "bad_str", v |-> -1]
NonStrT == [kind |-> "not_str", v |-> -1]

\* a payload that has the key "timestamp"
WithTimestamp(p, ts) == p @@ [timestamp |-> ts]

\* a parse that takes whatever the payload carries
PayloadTimestamp_NoFallback(p) == IF "timestamp" \in DOMAIN p THEN p.timestamp.v ELSE now

\* transaction_time: fromisoformat(timestamp) of a string that parses, else utcnow()
PayloadTimestamp(p) ==
    IF "timestamp" \in DOMAIN p /\ p.timestamp.kind = "iso" THEN p.timestamp.v ELSE now

\* (payload.get("status") or "success").lower()
PayloadStatus(p) == Lower(IF p.status = NoStr \/ p.status = "" THEN "success" ELSE p.status)

\* a resolution in which the last spelling wins
PayloadOrderId_LastWins(p) == OrElse(p.orderID, OrElse(p.orderId, p.order_id))

\* payload.get("order_id") or payload.get("orderId") or payload.get("orderID")
PayloadOrderId(p) == OrElse(p.order_id, OrElse(p.orderId, p.orderID))

\* Decimal(str(payload.get("amount", 0))), Decimal("0.00") when that raises
PayloadAmount(p) == IF p.amount.kind = "dec" THEN p.amount.v ELSE 0

\* a resolution without the fall-back to the order id
PayloadTranId_NoFallback(p) ==
    OrElse(p.tran_id, OrElse(p.transaction_id, OrElse(p.transactionId, p.trans_id)))

\* tran_id or transaction_id or transactionId or trans_id or order_id
PayloadTranId(p) ==
    OrElse(p.tran_id, OrElse(p.transaction_id, OrElse(p.transactionId,
           OrElse(p.trans_id, PayloadOrderId(p)))))

\* a reconciliation that copies every status as it is
CanonicalStatus_Verbatim(status) == status

\* "paid" if status == "success" else status
CanonicalStatus(status) == IF status = "success" THEN "paid" ELSE status

\* a reconciliation that records a payment whatever the status
WritesPayment_AnyStatus(p) == Truthy(PayloadOrderId(p)) /\ PayloadAmount(p) # 0

\* order_id and amount_value and status in {"success", "paid"}
WritesPayment(p) ==
    /\ Truthy(PayloadOrderId(p))
    /\ PayloadAmount(p) # 0
    /\ PayloadStatus(p) \in {"success", "paid"}

\* a payment that keeps the callback's status
PaymentStatus_Verbatim(status) == status

\* "captured" if status == "success" else status
PaymentStatus(status) == IF status = "success" THEN "captured" ELSE status

\* the Transaction(...) row of a payload
TransactionRecord(p) ==
    [id |-> NextTxnId,
     order_id |-> PayloadOrderId(p),
     tran_id |-> PayloadTranId(p),
     amount_value |-> PayloadAmount(p),
     currency |-> "USD",
     status |-> PayloadStatus(p),
     timestamp |-> PayloadTimestamp(p)]

\* a reconciliation that also takes the order's amount from the callback
SyncOrder_SetsAmount(p) ==
    IF PayloadOrderId(p) \in DOMAIN orders
    THEN [orders EXCEPT ![PayloadOrderId(p)].status = CanonicalStatus(PayloadStatus(p)),
                        ![PayloadOrderId(p)].updated_at = now,
                        ![PayloadOrderId(p)].amount = PayloadAmount(p)]
    ELSE orders

\* order.status = canonical_status; order.updated_at = utcnow(), when
\* Order.query.get(order_id) finds the order
SyncOrder(p) ==
    IF PayloadOrderId(p) \in DOMAIN orders
    THEN [orders EXCEPT ![PayloadOrderId(p)].status = CanonicalStatus(PayloadStatus(p)),
                        ![PayloadOrderId(p)].updated_at = now]
    ELSE orders

\* a table that keeps one row per order
TransactionsWith_OnePerOrder(p) ==
    {t \in transactions : t.order_id # PayloadOrderId(p)} \cup {TransactionRecord(p)}

\* db.session.add(record): the table with the new row
TransactionsWith(p) == transactions \cup {TransactionRecord(p)}

\* what the flush of the new Transaction row runs into
TransactionInsertFails(p) ==
    \/ TranIdTaken(PayloadTranId(p))
    \/ OrderFkBroken(PayloadOrderId(p))

\* the record_payment(...) call of register_transaction
GatewayPaymentArgs(p) ==
    [order_id |-> PayloadOrderId(p),
     amount |-> PayloadAmount(p),
     currency |-> "USD",
     status |-> PaymentStatus(PayloadStatus(p)),
     method |-> "ABA PayWay",
     gateway_reference |-> PayloadTranId(p),
     user_id |-> 0]

-----------------------------------------------------------------------------
(* register_transaction, up to its commit of the Transaction row and the   *)
(* order's status (data.py 494-544)                                        *)

\* how the worker's preceding handler ended, when it was a delivery of the same payload
PrecedingDelivery(w, p) ==
    IF result[w].op = "register_transaction" /\ result[w].payload = p
    THEN result[w].outcome
    ELSE "none"

RegisterTransaction(w, p) ==
    /\ pc[w] = "idle"
    /\ Cardinality(transactions) < MaxTxns \/ TransactionInsertFails(p)
    /\ WritesPayment(p) => PaymentRoom
    /\ LET base == [op |-> "register_transaction", payload |-> p,
                    after |-> PrecedingDelivery(w, p),
                    dup |-> TranIdTaken(PayloadTranId(p)),
                    txn |-> 0, before |-> <<orders, payments>>, at |-> now]
       IN
       IF ~storeUp
       THEN \* Order.query.get or the commit raises OperationalError
            /\ Finish(w, base @@ [outcome |-> "unavailable"])
            /\ UNCHANGED <<orders, transactions, payments>>
       ELSE IF TransactionInsertFails(p)
       THEN \* IntegrityError: rollback, raise
            /\ Finish(w, base @@ [outcome |-> "integrity"])
            /\ UNCHANGED <<orders, transactions, payments>>
       ELSE /\ transactions' = TransactionsWith(p)
            /\ orders' = SyncOrder(p)
            /\ UNCHANGED payments
            /\ IF WritesPayment(p)
               THEN /\ Start(w, "pay_lookup",
                               [base EXCEPT !.txn = NextTxnId] @@
                               [args |-> GatewayPaymentArgs(p), existing |-> 0])
               ELSE /\ Finish(w, [base EXCEPT !.txn = NextTxnId] @@ [outcome |-> "ok"])
    /\ UNCHANGED <<storeUp, fkEnforced, users, now, orderSeq, orderCalls>>

-----------------------------------------------------------------------------
(* record_payment (data.py 380-414), called by register_transaction and by *)
(* POST /payments                                                          *)

\* Payment.query.filter_by(gateway_reference=...).first(): the row's id, 0 for None
ExistingPayment(ref) ==
    IF \E q \in payments : q.gateway_reference = ref
    THEN (CHOOSE q \in payments : q.gateway_reference = ref).id
    ELSE 0

\* ForeignKey("users.id") on a nullable column
UserFkBroken(uid) == fkEnforced /\ uid # 0 /\ ~\E u \in users : u.id = uid

\* an update that also moves the row to the order the call names
UpdatedPayment_MovesOrder(q, a) ==
    [q EXCEPT !.order_id = a.order_id,
              !.amount = a.amount,
              !.currency = a.currency,
              !.status = a.status,
              !.method = a.method,
              !.user_id = IF a.user_id # 0 THEN a.user_id ELSE @,
              !.processed_at = now]

\* the in-place update of the existing row
UpdatedPayment(q, a) ==
    [q EXCEPT !.amount = a.amount,
              !.currency = a.currency,
              !.status = a.status,
              !.method = a.method,
              !.user_id = IF a.user_id # 0 THEN a.user_id ELSE @,
              !.processed_at = now]

\* Payment(...)
NewPayment(a) ==
    [id |-> NextPaymentId,
     order_id |-> a.order_id,
     user_id |-> a.user_id,
     amount |-> a.amount,
     currency |-> a.currency,
     status |-> a.status,
     method |-> a.method,
     gateway_reference |-> a.gateway_reference,
     processed_at |-> now]

\* the payments table without the unique index on gateway_reference
PaymentInsertFails_NoUnique(a) ==
    \/ OrderFkBroken(a.order_id)
    \/ UserFkBroken(a.user_id)
    \/ a.order_id = NoId

\* what the flush of the new Payment row runs into
PaymentInsertFails(a) ==
    \/ GatewayRefTaken(a.gateway_reference)
    \/ OrderFkBroken(a.order_id)
    \/ UserFkBroken(a.user_id)
    \/ a.order_id = NoId

\* the ghost of a handler that ends in record_payment
Ended(w, how) ==
    [k \in DOMAIN req[w] \ {"args", "existing"} |-> req[w][k]] @@ [outcome |-> how]

\* if gateway_reference: existing = Payment.query...first()
RecordPaymentLookup(w) ==
    /\ pc[w] = "pay_lookup"
    /\ IF ~Truthy(req[w].args.gateway_reference)
       THEN /\ pc' = [pc EXCEPT ![w] = "pay_commit"]
            /\ UNCHANGED <<req, result>>
       ELSE IF ~storeUp
       THEN /\ Finish(w, Ended(w, "unavailable"))
       ELSE /\ pc' = [pc EXCEPT ![w] = "pay_commit"]
            /\ req' = [req EXCEPT ![w].existing = ExistingPayment(req[w].args.gateway_reference)]
            /\ UNCHANGED result
    /\ UNCHANGED <<orders, transactions, payments, storeUp, fkEnforced, users, now, orderSeq,
                   orderCalls>>

\* the update of the existing row, or the insert of a new one, and the commit
RecordPaymentCommit(w) ==
    /\ pc[w] = "pay_commit"
    /\ LET a == req[w].args
           how == IF ~storeUp THEN "unavailable"
                  ELSE IF req[w].existing = 0 /\ PaymentInsertFails(a) THEN "integrity"
                  ELSE IF req[w].existing # 0 /\ UserFkBroken(a.user_id) THEN "integrity"
                  ELSE "ok"
       IN
       /\ payments' =
            IF how # "ok" THEN payments
            ELSE IF req[w].existing # 0
            THEN {IF q.id = req[w].existing THEN UpdatedPayment(q, a) ELSE q : q \in payments}
            ELSE payments \cup {NewPayment(a)}
       /\ Finish(w, Ended(w, how))
    /\ UNCHANGED <<orders, transactions, storeUp, fkEnforced, users, now, orderSeq, orderCalls>>

\* POST /payments (api.py 294-322): create_payment
CreatePayment(w, a) ==
    /\ pc[w] = "idle"
    /\ PaymentRoom
    /\ LET base == [op |-> "create_payment"] IN
       IF ~Truthy(a.order_id)
       THEN /\ Finish(w, base @@ [outcome |-> "bad_request"])
       ELSE IF ~storeUp
       THEN /\ Finish(w, base @@ [outcome |-> "unavailable"])
       ELSE IF a.order_id \notin DOMAIN orders
       THEN /\ Finish(w, base @@ [outcome |-> "not_found"])
       ELSE /\ Start(w, "pay_lookup", base @@ [args |-> a, existing |-> 0])
    /\ UNCHANGED <<orders, transactions, payments, storeUp, fkEnforced, users, now, orderSeq,
                   orderCalls>>

\* a call of record_payment by itself
RecordPayment(w, a) ==
    /\ pc[w] = "idle"
    /\ PaymentRoom
    /\ Start(w, "pay_lookup",
             [op |-> "record_payment", call |-> a, before |-> payments, at |-> now,
              args |-> a, existing |-> 0])
    /\ UNCHANGED <<orders, transactions, payments, storeUp, fkEnforced, users, now, orderSeq,
                   orderCalls>>

-----------------------------------------------------------------------------
(* create_order_record (data.py 275-311)                                   *)

IntQ(n) == [kind |-> "int", v |-> n]
FloatQ(tenths) == [kind |-> "float", v |-> tenths]
StrQ(n) == [kind |-> "numeric_str", v |-> n]
BadStrQ == [kind |-> "other_str", v |-> 0]
NoneQ == [kind |-> "none", v |-> 0]
\* float("inf") and float("-inf"), which JSON bodies can carry as Infinity and -Infinity
InfQ(sign) == [kind |-> "inf", v |-> sign]

\* int(raw_quantity) raises OverflowError, which `except (TypeError, ValueError)` lets through
QuantityRaises(raw) == raw.kind = "inf"

\* int(raw_quantity): None and lists raise TypeError, a non-numeric string ValueError,
\* a float is cut towards zero
IntOf(raw) ==
    CASE raw.kind = "int" -> [ok |-> TRUE, v |-> raw.v]
      [] raw.kind = "numeric_str" -> [ok |-> TRUE, v |-> raw.v]
      [] raw.kind = "float" ->
            [ok |-> TRUE, v |-> IF raw.v >= 0 THEN raw.v \div 10 ELSE -((-raw.v) \div 10)]
      [] OTHER -> [ok |-> FALSE, v |-> 0]

_coerce_quantity(raw) ==
    IF ~IntOf(raw).ok THEN 1
    ELSE IF IntOf(raw).v > 0 THEN IntOf(raw).v ELSE 1

\* Decimal(service.price) * Decimal(safe_quantity)
Subtotal(price, quantity) == price * quantity

\* f"ORDER-{now.strftime('%Y%m%d%H%M%S')}-{next(_ORDER_SEQUENCE):04d}"
OrderId(ts, seq) == <<ts, seq>>

\* a counter that every call starts again
SequenceAfterNext_Restarted(proc) == [orderSeq EXCEPT ![proc] = 1]

\* next(_ORDER_SEQUENCE): itertools.count, one atomic step under the interpreter lock
SequenceAfterNext(proc) == [orderSeq EXCEPT ![proc] = @ + 1]

\* a customer that is a str, beside the customers that are a dict (a record of
\* strings, "" for a key that is absent, None or empty)
TextCustomer(s) == [text |-> s]

\* customer.get(key), "" for None
Field(customer, key) == IF key \in DOMAIN customer THEN customer[key] ELSE ""

\* name or full_name or fullName or "Guest" of a dict, a str as it is
normalize_customer_name(customer) ==
    IF DOMAIN customer = {"text"} THEN customer.text
    ELSE IF Field(customer, "name") # "" THEN Field(customer, "name")
    ELSE IF Field(customer, "full_name") # "" THEN Field(customer, "full_name")
    ELSE IF Field(customer, "fullName") # "" THEN Field(customer, "fullName")
    ELSE "Guest"

\* Order(...)
NewOrder(service_id, customer, raw_quantity) ==
    [service_id |-> service_id,
     unit_price |-> ServicePrice[service_id],
     quantity |-> _coerce_quantity(raw_quantity),
     amount |-> Subtotal(ServicePrice[service_id], _coerce_quantity(raw_quantity)),
     customer_name |-> normalize_customer_name(customer),
     status |-> "pending",
     created_at |-> now,
     updated_at |-> now]

\* a catalog that answers an unknown id with its first service
ServiceQueryGet_Default(service_id) == IF service_id \in ServiceIds THEN service_id ELSE 1

\* Service.query.get(service_id), after ensure_seed_data(): the row's key, 0 for None
ServiceQueryGet(service_id) == IF service_id \in ServiceIds THEN service_id ELSE 0

OrderCallRoom ==
    Len(orderCalls) + Cardinality({w \in Workers : pc[w] = "order_commit"}) < MaxOrderCalls

\* up to the Order(...) object: the service lookup and the id
CreateOrderRecord(w, service_id, customer, raw_quantity) ==
    /\ pc[w] = "idle"
    /\ OrderCallRoom
    /\ LET base == [op |-> "create_order_record", service_id |-> service_id,
                    customer |-> customer, raw |-> raw_quantity]
           service == ServiceQueryGet(service_id)
       IN
       IF ~storeUp
       THEN /\ Finish(w, base @@ [outcome |-> "unavailable"])
            /\ UNCHANGED orderSeq
       ELSE IF service = 0
       THEN \* raise IndexError("Service not found.")
            /\ Finish(w, base @@ [outcome |-> "not_found"])
            /\ UNCHANGED orderSeq
       ELSE IF QuantityRaises(raw_quantity)
       THEN \* OverflowError out of _coerce_quantity
            /\ Finish(w, base @@ [outcome |-> "server_error"])
            /\ UNCHANGED orderSeq
       ELSE /\ Start(w, "order_commit",
                       base @@ [id |-> OrderId(now, orderSeq[ProcOf(w)]),
                                row |-> NewOrder(service, customer, raw_quantity)])
            /\ orderSeq' = SequenceAfterNext(ProcOf(w))
    /\ UNCHANGED <<orders, transactions, payments, storeUp, fkEnforced, users, now, orderCalls>>

\* db.session.add(order); db.session.commit()
CreateOrderCommit(w) ==
    /\ pc[w] = "order_commit"
    /\ LET how == IF ~storeUp THEN "unavailable"
                  ELSE IF OrderIdTaken(req[w].id) THEN "integrity"
                  ELSE "ok"
       IN
       /\ orders' = IF how = "ok" THEN (req[w].id :> req[w].row) @@ orders ELSE orders
       /\ orderCalls' = Append(orderCalls,
                               [proc |-> ProcOf(w), id |-> req[w].id, outcome |-> how])
       /\ Finish(w, [k \in DOMAIN req[w] \ {"row"} |-> req[w][k]] @@ [outcome |-> how])
    /\ UNCHANGED <<transactions, payments, storeUp, fkEnforced, users, now, orderSeq>>

-----------------------------------------------------------------------------
(* PATCH /orders/<id> (api.py 178-200) and update_order_status (data.py 328-337) *)

\* a handler that takes any status
StatusRefused_Never(status_normalized) == FALSE

\* status_normalized not in allowed_statuses
StatusRefused(status_normalized) == status_normalized \notin AllowedStatuses

\* an update that leaves a paid order as it is
update_order_status_PaidIsFinal(order_id, status) ==
    IF orders[order_id].status = "paid" THEN orders
    ELSE [orders EXCEPT ![order_id].status = status, ![order_id].updated_at = now]

\* order.status = status; order.updated_at = datetime.utcnow(), of an order that is found
update_order_status(order_id, status) ==
    [orders EXCEPT ![order_id].status = status, ![order_id].updated_at = now]

MutateOrder(w, order_id, status) ==
    /\ pc[w] = "idle"
    /\ LET status_normalized == Lower(status)
           base == [op |-> "mutate_order"]
           how == IF StatusRefused(status_normalized) THEN "bad_request"
                  ELSE IF ~storeUp THEN "unavailable"
                  ELSE IF order_id \notin DOMAIN orders THEN "not_found"
                  ELSE "ok"
       IN
       /\ orders' = IF how = "ok"
                    THEN update_order_status(order_id, status_normalized)
                    ELSE orders
       /\ Finish(w, base @@ [outcome |-> how])
    /\ UNCHANGED <<transactions, payments, storeUp, fkEnforced, users, now, orderSeq, orderCalls>>

-----------------------------------------------------------------------------
(* POST /payment/success (routes.py 137-153) and payments_summary (data.py 417-425) *)

\* the module-level names of app/data.py
DataAttributes ==
    {"LICENSE_DATA", "DEFAULT_SERVICES", "_CANONICAL_IMAGE_LOOKUP",
     "PRICING_PLAN_DEFINITIONS", "_ORDER_SEQUENCE"}

RECURSIVE SumAmounts(_)
\* sum(payment.amount for payment in payments)
SumAmounts(rows) ==
    IF rows = {} THEN 0
    ELSE LET q == CHOOSE r \in rows : TRUE IN q.amount + SumAmounts(rows \ {q})

\* payments_summary(): count and total_amount
payments_summary == [count |-> Cardinality(payments), total_amount |-> SumAmounts(payments)]

\* the form fields of a gateway callback
Form(oid, tid, amt, st) == [order_id |-> oid, tran_id |-> tid, amount |-> amt, status |-> st]

\* payment_success: the handler reads data.TRANSACTION_HISTORY before anything else;
\* a name the module does not define raises AttributeError, which Flask answers with 500
PaymentSuccess(w, form) ==
    /\ pc[w] = "idle"
    /\ LET base == [op |-> "payment_success", form |-> form,
                    summary |-> payments_summary,
                    before |-> <<orders, payments>>]
       IN IF "TRANSACTION_HISTORY" \notin DataAttributes
          THEN Finish(w, base @@ [outcome |-> "server_error"])
          ELSE Finish(w, base @@ [outcome |-> "redirect"])
    /\ UNCHANGED <<orders, transactions, payments, storeUp, fkEnforced, users, now, orderSeq,
                   orderCalls>>

-----------------------------------------------------------------------------
(* The ABA PayWay client (payway.py).  Strings are strings; None and a      *)
(* missing key are the empty string, which the code's truth tests treat     *)
(* alike.                                                                   *)

\* the PayWay keys of app.config
PaywayConfig(merchant, key, checkout, return, cancel) ==
    [ABA_PAYWAY_MERCHANT_ID |-> merchant,
     ABA_PAYWAY_API_KEY |-> key,
     ABA_PAYWAY_CHECKOUT_URL |-> checkout,
     ABA_PAYWAY_RETURN_URL |-> return,
     ABA_PAYWAY_CANCEL_URL |-> cancel]

\* cls(merchant_id=config.get(...), ...)
PaywayClient(config) ==
    [merchant_id |-> config.ABA_PAYWAY_MERCHANT_ID,
     api_key |-> config.ABA_PAYWAY_API_KEY,
     checkout_url |-> config.ABA_PAYWAY_CHECKOUT_URL,
     return_url |-> config.ABA_PAYWAY_RETURN_URL,
     cancel_url |-> config.ABA_PAYWAY_CANCEL_URL]

\* a validation that lets the placeholder values of config.py pass
_validate_configuration_NoPlaceholder(client) ==
    IF client.merchant_id = "" THEN "ABA PayWay merchant ID has not been configured."
    ELSE IF client.api_key = "" THEN "ABA PayWay API key has not been configured."
    ELSE IF client.checkout_url = "" THEN "ABA PayWay checkout endpoint URL is missing."
    ELSE IF client.return_url = "" THEN "ABA PayWay return URL is missing."
    ELSE IF client.cancel_url = "" THEN "ABA PayWay cancel URL is missing."
    ELSE ""

\* the message of the PaywayError raised, "" when none is
_validate_configuration(client) ==
    IF client.merchant_id = "" \/ client.merchant_id = "YOUR_MERCHANT_ID"
    THEN "ABA PayWay merchant ID has not been configured."
    ELSE IF client.api_key = "" \/ client.api_key = "YOUR_API_KEY"
    THEN "ABA PayWay API key has not been configured."
    ELSE IF client.checkout_url = "" THEN "ABA PayWay checkout endpoint URL is missing."
    ELSE IF client.return_url = "" THEN "ABA PayWay return URL is missing."
    ELSE IF client.cancel_url = "" THEN "ABA PayWay cancel URL is missing."
    ELSE ""

\* from_app: the client, and the PaywayError its validation raised
from_app(config) ==
    [client |-> PaywayClient(config),
     error |-> _validate_configuration(PaywayClient(config))]

\* a signature that leaves the items out
signing_fields_NoItems ==
    <<"merchant_id", "order_id", "amount", "currency", "return_url", "cancel_url">>

signing_fields ==
    <<"merchant_id", "order_id", "amount", "currency", "items", "return_url", "cancel_url">>

RECURSIVE Join(_)
\* "|".join(parts)
Join(parts) ==
    IF parts = <<>> THEN ""
    ELSE IF Len(parts) = 1 THEN parts[1]
    ELSE parts[1] \o "|" \o Join(Tail(parts))

\* a signature that also covers the customer's name
SigningParts_WithCustomer(payload) ==
    SelectSeq([i \in DOMAIN signing_fields |-> payload[signing_fields[i]]],
              LAMBDA v : v # "")
    \o (IF "customer_name" \in DOMAIN payload THEN <<payload.customer_name>> ELSE <<>>)

\* str(payload[field]) for field in signing_fields if payload.get(field)
SigningParts(payload) ==
    SelectSeq([i \in DOMAIN signing_fields |-> payload[signing_fields[i]]],
              LAMBDA v : v # "")

signing_string(payload) == Join(SigningParts(payload))

\* hmac.new(key, message, sha512).hexdigest(), taken as free of collisions
Hmac(key, message) == <<key, message>>

NoCustomer == [name |-> "", email |-> "", phone |-> ""]

\* a payload that carries the customer keys whether or not they were supplied
CustomerFields_Always(customer) ==
    [customer_name |-> customer.name, customer_email |-> customer.email,
     customer_phone |-> customer.phone]

\* the customer_* keys the payload gets
CustomerFields(customer) ==
    (IF customer.name # "" THEN [customer_name |-> customer.name] ELSE <<>>)
    @@ (IF customer.email # "" THEN [customer_email |-> customer.email] ELSE <<>>)
    @@ (IF customer.phone # "" THEN [customer_phone |-> customer.phone] ELSE <<>>)

create_checkout_payload(client, order_id, amount, items, customer, currency) ==
    LET payload ==
            [merchant_id |-> client.merchant_id,
             order_id |-> order_id,
             amount |-> amount,
             currency |-> currency,
             items |-> items,
             return_url |-> client.return_url,
             cancel_url |-> client.cancel_url] @@ CustomerFields(customer)
    IN [endpoint |-> client.checkout_url,
        payload |-> payload @@ [hash |-> Hmac(client.api_key, signing_string(payload))]]

\* a call of create_checkout_payload on a client
CreateCheckoutPayload(w, client, order_id, amount, items, customer, currency) ==
    /\ pc[w] = "idle"
    /\ Finish(w, [op |-> "create_checkout_payload", outcome |-> "ok",
                  client |-> client, customer |-> customer,
                  out |-> create_checkout_payload(client, order_id, amount, items,
                                                  customer, currency)])
    /\ UNCHANGED <<orders, transactions, payments, storeUp, fkEnforced, users, now, orderSeq,
                   orderCalls>>

-----------------------------------------------------------------------------
(* POST /api/payments/aba/checkout: payway_checkout of the api blueprint    *)
(* (api.py 331-384) and of the main blueprint (routes.py 98-129), which     *)
(* both register the path.  Each runs as one step: the specifications that  *)
(* use them handle one request at a time.                                   *)

\* DEFAULT_SERVICES, by primary key in seed order
ServiceName ==
    <<"Auto Delete Comment - 1 Month Plan", "Facebook Station ", "Report Facebook ",
      "Telegram Station", "Smart Desk Organizer">>

\* f"{n:04d}"
Pad4(n) ==
    (IF n < 10 THEN "000" ELSE IF n < 100 THEN "00" ELSE IF n < 1000 THEN "0" ELSE "")
    \o ToString(n)

\* the order id as the string the code builds
OrderIdText(id) == "ORDER-" \o ToString(id[1]) \o "-" \o Pad4(id[2])

\* f"{float(amount_value):.2f}" of an amount in cents
AmountText(cents) ==
    ToString(cents \div 100) \o "." \o (IF cents % 100 < 10 THEN "0" ELSE "")
    \o ToString(cents % 100)

NoPayload == [endpoint |-> "", payload |-> <<>>]

\* an orderId that is a blank string
BlankOrderId == <<" ">>

\* the JSON body of a checkout request; orderId NoId when the key is absent
CheckoutBody(service_id, order_id, quantity, customer) ==
    [serviceId |-> service_id, orderId |-> order_id, quantity |-> quantity,
     customer |-> customer]

\* a checkout that charges the catalog price of the service the request names
amount_value_CatalogPrice(order_record, service_id) == ServicePrice[service_id]

\* order_record.get("amount", service["price"]): _serialize_order always has the key
amount_value(order_record, service_id) == order_record.amount

\* api.payway_checkout
ApiPaywayCheckout(w, config, body) ==
    /\ pc[w] = "idle"
    /\ body.orderId = NoId => OrderCallRoom
    /\ LET creates == body.orderId = NoId
           id == OrderId(now, orderSeq[ProcOf(w)])
           \* create_order_record is reached, and draws its id
           draws == /\ creates /\ storeUp /\ body.serviceId \in ServiceIds
                    /\ ~QuantityRaises(body.quantity)
           stored == draws /\ ~OrderIdTaken(id)
           order_id == IF creates THEN id ELSE body.orderId
           outcome ==
               IF ~storeUp THEN "unavailable"
               ELSE IF body.serviceId \notin ServiceIds THEN "not_found"
               ELSE IF ~creates /\ body.orderId = BlankOrderId THEN "bad_request"
               ELSE IF ~creates /\ body.orderId \notin DOMAIN orders THEN "not_found"
               ELSE IF creates /\ QuantityRaises(body.quantity) THEN "server_error"
               ELSE IF creates /\ OrderIdTaken(id) THEN "integrity"
               \* from_app stands before the try: its PaywayError is not caught
               ELSE IF from_app(config).error # "" THEN "server_error"
               \* create_checkout_payload raises no PaywayError: no 502
               ELSE "ok"
           order_record == IF creates
                           THEN NewOrder(body.serviceId, body.customer, body.quantity)
                           ELSE orders[order_id]
           amount == amount_value(order_record, body.serviceId)
       IN
       /\ orders' = IF stored
                    THEN (id :> NewOrder(body.serviceId, body.customer, body.quantity)) @@ orders
                    ELSE orders
       /\ orderSeq' = IF draws THEN SequenceAfterNext(ProcOf(w)) ELSE orderSeq
       /\ orderCalls' =
            IF draws
            THEN Append(orderCalls, [proc |-> ProcOf(w), id |-> id,
                                     outcome |-> IF stored THEN "ok" ELSE "integrity"])
            ELSE orderCalls
       /\ Finish(w, [op |-> "payway_checkout", config |-> config, body |-> body,
                     before |-> orders, outcome |-> outcome,
                     error |-> IF outcome = "server_error" /\ ~QuantityRaises(body.quantity)
                               THEN "PaywayError" ELSE "",
                     out |-> IF outcome = "ok"
                             THEN create_checkout_payload(
                                      from_app(config).client, OrderIdText(order_id),
                                      AmountText(amount), ServiceName[body.serviceId],
                                      body.customer, "USD")
                             ELSE NoPayload])
    /\ UNCHANGED <<transactions, payments, storeUp, fkEnforced, users, now>>

\* routes.payway_checkout: it reads data.SERVICES, a name app/data.py does not define,
\* before it builds the client
RoutesPaywayCheckout(w, config, body) ==
    /\ pc[w] = "idle"
    /\ LET outcome ==
               IF "SERVICES" \notin DataAttributes THEN "server_error"
               ELSE IF body.serviceId + 1 \notin DOMAIN ServiceName THEN "not_found"
               ELSE IF from_app(config).error # "" THEN "server_error"
               ELSE "ok"
       IN Finish(w, [op |-> "routes_payway_checkout", config |-> config, body |-> body,
                     before |-> orders, outcome |-> outcome,
                     error |-> IF "SERVICES" \notin DataAttributes THEN "AttributeError"
                               ELSE IF outcome = "server_error" THEN "PaywayError" ELSE "",
                     out |-> IF outcome = "ok"
                             THEN create_checkout_payload(
                                      from_app(config).client, "ORDER-" \o ToString(now),
                                      AmountText(ServicePrice[body.serviceId + 1]),
                                      ServiceName[body.serviceId + 1],
                                      body.customer, "USD")
                             ELSE NoPayload])
    /\ UNCHANGED <<orders, transactions, payments, storeUp, fkEnforced, users, now, orderSeq,
                   orderCalls>>

-----------------------------------------------------------------------------
(* create_user (data.py 351-371) and the users table (models.py 156-170)   *)

\* str.lower() on the e-mail addresses the model sends
LowerEmail(s) ==
    CASE s = "A@x" -> "a@x"
      [] s = " A@x " -> " a@x "
      [] s = "B@x" -> "b@x"
      [] OTHER -> s

\* str.strip() on them
Strip(s) ==
    CASE s = " a@x " -> "a@x"
      [] s = " A@x " -> "A@x"
      [] s = " Ann " -> "Ann"
      [] OTHER -> s

\* email.lower().strip()
NormalizedEmail(email) == Strip(LowerEmail(email))

\* User.email: unique=True
UserEmailTaken(email) == \E u \in users : u.email = email

\* a look-up by the address as it was given
ExistingUser_RawEmail(email) ==
    IF \E u \in users : u.email = email
    THEN CHOOSE u \in users : u.email = email
    ELSE <<>>

\* User.query.filter_by(email=normalized_email).first(): the row, <<>> for None
ExistingUser(email) ==
    IF \E u \in users : u.email = NormalizedEmail(email)
    THEN CHOOSE u \in users : u.email = NormalizedEmail(email)
    ELSE <<>>

\* User(...)
NewUser(full_name, email, phone, company) ==
    [id |-> Cardinality(users) + 1,
     full_name |-> Strip(full_name),
     email |-> NormalizedEmail(email),
     phone |-> phone,
     company |-> company]

\* the model's cap on the users table, counting the handlers about to write a row
UserRoom ==
    Cardinality(users) + Cardinality({w \in Workers : pc[w] = "user_commit"}) < MaxUsers

\* up to the User(...) object: the look-up by e-mail
CreateUser(w, full_name, email, phone, company) ==
    /\ pc[w] = "idle"
    /\ UserRoom
    /\ LET base == [op |-> "create_user", full_name |-> full_name, email |-> email,
                    phone |-> phone, company |-> company, before |-> users,
                    returned |-> <<>>]
       IN
       IF ~storeUp
       THEN Finish(w, base @@ [outcome |-> "unavailable"])
       ELSE IF ExistingUser(email) # <<>>
       THEN \* return existing.to_dict()
            Finish(w, [base EXCEPT !.returned = ExistingUser(email)] @@ [outcome |-> "ok"])
       ELSE Start(w, "user_commit", base)
    /\ UNCHANGED <<orders, transactions, payments, users, storeUp, fkEnforced, now, orderSeq,
                   orderCalls>>

\* what the flush of the new User row runs into
UserInsertFails(email) == UserEmailTaken(email)

\* db.session.add(user); db.session.commit()
CreateUserCommit(w) ==
    /\ pc[w] = "user_commit"
    /\ LET row == NewUser(req[w].full_name, req[w].email, req[w].phone, req[w].company)
           how == IF ~storeUp THEN "unavailable"
                  ELSE IF UserInsertFails(row.email) THEN "integrity"
                  ELSE "ok"
       IN
       /\ users' = IF how = "ok" THEN users \cup {row} ELSE users
       /\ Finish(w, [req[w] EXCEPT !.returned = IF how = "ok" THEN row ELSE <<>>]
                    @@ [outcome |-> how])
    /\ UNCHANGED <<orders, transactions, payments, storeUp, fkEnforced, now, orderSeq,
                   orderCalls>>

-----------------------------------------------------------------------------
(* POST /orders (api.py 127-167): create_order, run as one step             *)

\* the JSON body of the request
OrderBody(service_id, quantity, customer) ==
    [serviceId |-> service_id, quantity |-> quantity, customer |-> customer]

\* (customer.get("email") or "").strip() of a dict, "" of any other customer
CustomerEmail(customer) ==
    IF DOMAIN customer = {"text"} THEN "" ELSE Strip(Field(customer, "email"))

\* the handler creates a user: the customer names an e-mail no user carries
RegistersUser(customer) ==
    CustomerEmail(customer) # "" /\ ExistingUser(CustomerEmail(customer)) = <<>>

ApiCreateOrder(w, body) ==
    /\ pc[w] = "idle"
    /\ OrderCallRoom
    /\ RegistersUser(body.customer) => UserRoom
    /\ LET id == OrderId(now, orderSeq[ProcOf(w)])
           service == ServiceQueryGet(body.serviceId.v)
           \* data.get_service found the service
           found == body.serviceId.kind = "int" /\ storeUp /\ service # 0
           user == NewUser(normalize_customer_name(body.customer),
                           CustomerEmail(body.customer),
                           Field(body.customer, "phone"), Field(body.customer, "company"))
           registers == found /\ RegistersUser(body.customer)
           draws == found /\ ~QuantityRaises(body.quantity)
           stored == draws /\ ~OrderIdTaken(id)
           outcome ==
               IF body.serviceId.kind # "int" THEN "bad_request"
               ELSE IF ~storeUp THEN "unavailable"
               ELSE IF service = 0 THEN "not_found"
               ELSE IF QuantityRaises(body.quantity) THEN "server_error"
               ELSE IF OrderIdTaken(id) THEN "integrity"
               ELSE "created"
       IN
       /\ users' = IF registers THEN users \cup {user} ELSE users
       /\ orders' = IF stored
                    THEN (id :> NewOrder(service, body.customer, body.quantity)) @@ orders
                    ELSE orders
       /\ orderSeq' = IF draws THEN SequenceAfterNext(ProcOf(w)) ELSE orderSeq
       /\ orderCalls' =
            IF draws
            THEN Append(orderCalls, [proc |-> ProcOf(w), id |-> id,
                                     outcome |-> IF stored THEN "ok" ELSE "integrity"])
            ELSE orderCalls
       /\ Finish(w, [op |-> "create_order", body |-> body, outcome |-> outcome,
                     service_id |-> body.serviceId.v,
                     id |-> IF stored THEN id ELSE NoId])
    /\ UNCHANGED <<transactions, payments, storeUp, fkEnforced, now>>

-----------------------------------------------------------------------------
(* The environment: the database going away and coming back, the clock *)

StoreFails ==
    /\ storeUp
    /\ storeUp' = FALSE
    /\ UNCHANGED <<orders, transactions, payments, fkEnforced, users, now, orderSeq,
                   pc, req, result, orderCalls>>

StoreRecovers ==
    /\ ~storeUp
    /\ storeUp' = TRUE
    /\ UNCHANGED <<orders, transactions, payments, fkEnforced, users, now, orderSeq,
                   pc, req, result, orderCalls>>

Tick ==
    /\ now < MaxTime
    /\ now' = now + 1
    /\ UNCHANGED <<orders, transactions, payments, storeUp, fkEnforced, users, orderSeq,
                   pc, req, result, orderCalls>>

-----------------------------------------------------------------------------
(* The state after create_app(): empty tables beside the seeded services *)

Init ==
    /\ orders = <<>>
    /\ transactions = {}
    /\ payments = {}
    /\ users = {}
    /\ storeUp = TRUE
    /\ fkEnforced \in BOOLEAN
    /\ now = 0
    /\ orderSeq = [p \in Procs |-> 1]
    /\ pc = [w \in Workers |-> "idle"]
    /\ req = [w \in Workers |-> NoReq]
    /\ result = [w \in Workers |-> NoResult]
    /\ orderCalls = <<>>

-----------------------------------------------------------------------------
(* Inputs *)

OrderRefs == DOMAIN orders \cup {NoId, UnknownOrder}

Payloads ==
    {Payload(o, t, Dec(a), "success") :
        o \in DOMAIN orders, t \in TranIds \cup {NoId}, a \in {500, 700}}
    \cup {Payload(o, NoId, Dec(0), "declined") : o \in OrderRefs}
    \cup {Payload(o, NoId, Dec(500), "success") : o \in {NoId, UnknownOrder}}

PaymentRequests ==
    {[order_id |-> o, amount |-> a, currency |-> "USD", status |-> "pending",
      method |-> NoStr, gateway_reference |-> g, user_id |-> 0] :
        o \in OrderRefs, a \in {500}, g \in TranIds \cup {NoId}}

(* One server process handling one request at a time, the store healthy *)
Next ==
    \/ /\ Len(orderCalls) < MaxOrders
       /\ \E s \in {1, 2, 9}, q \in {IntQ(3)} : CreateOrderRecord("w1", s, NoCustomer, q)
    \/ CreateOrderCommit("w1")
    \/ \E o \in OrderRefs, s \in {"Refunded", "shipped"} : MutateOrder("w1", o, s)
    \/ \E p \in Payloads : RegisterTransaction("w1", p)
    \/ RecordPaymentLookup("w1")
    \/ RecordPaymentCommit("w1")
    \/ \E a \in PaymentRequests : CreatePayment("w1", a)

Spec == Init /\ [][Next]_vars

(* The gateway delivering callbacks to one server process whose store may  *)
(* go away and come back between any two accesses                          *)
FaultNext ==
    \/ /\ Len(orderCalls) < MaxOrders
       /\ CreateOrderRecord("w1", 1, NoCustomer, IntQ(3))
    \/ CreateOrderCommit("w1")
    \/ \E p \in Payloads : RegisterTransaction("w1", p)
    \/ RecordPaymentLookup("w1")
    \/ RecordPaymentCommit("w1")
    \/ StoreFails
    \/ StoreRecovers

FaultSpec == Init /\ [][FaultNext]_vars

(* A handler that has started runs on to its next store access *)
FaultLiveSpec ==
    /\ FaultSpec
    /\ WF_vars(CreateOrderCommit("w1"))
    /\ WF_vars(RecordPaymentLookup("w1"))
    /\ WF_vars(RecordPaymentCommit("w1"))

(* Every operation that reaches an order, on orders of several services and *)
(* quantities                                                              *)
OrderNext ==
    \/ /\ Len(orderCalls) < MaxOrders
       /\ \E s \in {1, 3, 9}, q \in {IntQ(2), IntQ(10000)} :
              CreateOrderRecord("w1", s, NoCustomer, q)
    \/ CreateOrderCommit("w1")
    \/ \E o \in OrderRefs, s \in {"Refunded", "shipped"} : MutateOrder("w1", o, s)
    \/ \E o \in DOMAIN orders :
          \/ RegisterTransaction("w1", Payload(o, <<"T1">>, Dec(500), "success"))
          \/ RegisterTransaction("w1", Payload(o, NoId, Dec(0), "declined"))
    \/ RecordPaymentLookup("w1")
    \/ RecordPaymentCommit("w1")
    \/ \E o \in DOMAIN orders :
          CreatePayment("w1", [order_id |-> o, amount |-> 500, currency |-> "USD",
                               status |-> "pending", method |-> NoStr,
                               gateway_reference |-> <<"T1">>, user_id |-> 0])

OrderSpec == Init /\ [][OrderNext]_vars

(* Two requests at a time in one server process: callbacks and POST /payments *)
(* naming the same gateway reference                                       *)
ConcNext ==
    \/ /\ Len(orderCalls) < MaxOrders
       /\ CreateOrderRecord("w1", 1, NoCustomer, IntQ(3))
    \/ CreateOrderCommit("w1")
    \/ \E w \in {"w1", "w2"} :
          \/ \E o \in DOMAIN orders, a \in {500, 700} :
                RegisterTransaction(w, Payload(o, <<"T1">>, Dec(a), "success"))
          \/ RecordPaymentLookup(w)
          \/ RecordPaymentCommit(w)
          \/ \E o \in DOMAIN orders, g \in TranIds \cup {NoId} :
                CreatePayment(w, [order_id |-> o, amount |-> 900, currency |-> "USD",
                                  status |-> "pending", method |-> NoStr,
                                  gateway_reference |-> g, user_id |-> 0])

ConcSpec == Init /\ [][ConcNext]_vars

(* Order creation by the threads of two server processes sharing the store *)
IdNext ==
    \/ \E w \in Workers, s \in {1, 9} : CreateOrderRecord(w, s, NoCustomer, IntQ(1))
    \/ \E w \in Workers : CreateOrderCommit(w)
    \/ Tick
    \/ StoreFails
    \/ StoreRecovers

IdSpec == Init /\ [][IdNext]_vars

-----------------------------------------------------------------------------
(* The gateway's success webhook, beside order creation and POST /payments *)
Forms ==
    {Form(o, t, a, s) : o \in OrderRefs, t \in TranIds,
                        a \in {Dec(1998), AmountBad, AmountAbsent}, s \in {"success", NoStr}}

WebhookNext ==
    \/ /\ Len(orderCalls) < MaxOrders
       /\ \E s \in {1, 2}, q \in {IntQ(1), IntQ(2)} : CreateOrderRecord("w1", s, NoCustomer, q)
    \/ CreateOrderCommit("w1")
    \/ \E f \in Forms : PaymentSuccess("w1", f)
    \/ \E o \in DOMAIN orders :
          CreatePayment("w1", [order_id |-> o, amount |-> 500, currency |-> "USD",
                               status |-> "pending", method |-> NoStr,
                               gateway_reference |-> NoId, user_id |-> 0])
    \/ RecordPaymentLookup("w1")
    \/ RecordPaymentCommit("w1")

WebhookSpec == Init /\ [][WebhookNext]_vars

-----------------------------------------------------------------------------
(* Callbacks whose timestamp or amount is missing or does not parse, while the *)
(* clock runs                                                              *)
ParsePayloads ==
    LET plain == {Payload(NoId, NoId, a, "success") : a \in {Dec(500), AmountAbsent, AmountBad}}
    IN plain
       \cup {WithTimestamp(p, ts) : p \in plain, ts \in {IsoT(7), BadT, NonStrT}}
       \cup {WithTimestamp(Payload(o, NoId, Dec(500), "success"), BadT) : o \in DOMAIN orders}

ParseNext ==
    \/ /\ Len(orderCalls) < MaxOrders
       /\ CreateOrderRecord("w1", 1, NoCustomer, IntQ(1))
    \/ CreateOrderCommit("w1")
    \/ \E p \in ParsePayloads : RegisterTransaction("w1", p)
    \/ RecordPaymentLookup("w1")
    \/ RecordPaymentCommit("w1")
    \/ Tick

ParseSpec == Init /\ [][ParseNext]_vars

-----------------------------------------------------------------------------
(* Two callers signing one checkout each, on a client and inputs of their own *)
SignClients ==
    {[merchant_id |-> m, api_key |-> k, checkout_url |-> "c", return_url |-> "r",
      cancel_url |-> x] : m \in {"", "m"}, k \in {"k", "j"}, x \in {"", "r"}}

SignNext ==
    \E w \in {w \in {"w1", "w2"} : result[w].op = "none"}, client \in SignClients :
        \E order_id \in {"", "a", "a|b"}, amount \in {"", "b"}, items \in {"", "b"},
           currency \in {"USD", "KHR"},
           customer \in {NoCustomer, [name |-> "n", email |-> "", phone |-> ""]} :
            CreateCheckoutPayload(w, client, order_id, amount, items, customer, currency)

SignSpec == Init /\ [][SignNext]_vars

-----------------------------------------------------------------------------
(* Order creation over the quantities a request can carry *)
Quantities ==
    {IntQ(-2), IntQ(0), IntQ(1), IntQ(3), StrQ(2), BadStrQ, NoneQ,
     FloatQ(-25), FloatQ(5), FloatQ(25), InfQ(-1), InfQ(1)}

QuantityNext ==
    \/ \E s \in {1, 9}, q \in Quantities : CreateOrderRecord("w1", s, NoCustomer, q)
    \/ CreateOrderCommit("w1")
    \/ Tick

QuantitySpec == Init /\ [][QuantityNext]_vars

-----------------------------------------------------------------------------
(* Checkout requests against an application whose PayWay configuration is   *)
(* complete, or lacks one value, or holds one placeholder                   *)
GoodConfig == PaywayConfig("m", "k", "c", "r", "x")

CheckoutConfigs ==
    {GoodConfig}
    \cup {[GoodConfig EXCEPT !.ABA_PAYWAY_MERCHANT_ID = v] : v \in {"", "YOUR_MERCHANT_ID"}}
    \cup {[GoodConfig EXCEPT !.ABA_PAYWAY_API_KEY = v] : v \in {"", "YOUR_API_KEY"}}
    \cup {[GoodConfig EXCEPT !.ABA_PAYWAY_CHECKOUT_URL = ""],
          [GoodConfig EXCEPT !.ABA_PAYWAY_RETURN_URL = ""],
          [GoodConfig EXCEPT !.ABA_PAYWAY_CANCEL_URL = ""]}

CheckoutBodies ==
    {CheckoutBody(s, o, IntQ(2), c) :
        s \in {1, 9}, o \in OrderRefs \cup {BlankOrderId},
        c \in {NoCustomer, [name |-> "n", email |-> "", phone |-> ""]}}

CheckoutNext ==
    \/ \E config \in CheckoutConfigs, body \in CheckoutBodies :
          /\ body.orderId = NoId => Len(orderCalls) < MaxOrders
          /\ ApiPaywayCheckout("w1", config, body)
    \/ \E config \in CheckoutConfigs, body \in CheckoutBodies :
          RoutesPaywayCheckout("w1", config, body)

CheckoutSpec == Init /\ [][CheckoutNext]_vars

-----------------------------------------------------------------------------
(* Two requests at a time creating users, by e-mail addresses that differ  *)
(* in case and in surrounding blanks                                       *)
UserNext ==
    \/ \E w \in {"w1", "w2"}, full_name \in {"Ann", "Bob"}, email \in {"a@x", " A@x ", "b@x"},
          phone \in {"", "1"} :
            CreateUser(w, full_name, email, phone, "")
    \/ \E w \in {"w1", "w2"} : CreateUserCommit(w)

UserSpec == Init /\ [][UserNext]_vars

-----------------------------------------------------------------------------
(* Orders created through POST /orders and through create_order_record, for *)
(* services the catalog has and has not, beside the operations that move an *)
(* order on                                                                *)
CatalogCustomers == {NoCustomer, [name |-> "Ann", email |-> " a@x "]}

\* the request bodies: a known service, an unknown one and none, for each customer
CatalogBodies ==
    {OrderBody(s, IntQ(2), c) : s \in {IntQ(1), IntQ(9), NoneQ}, c \in CatalogCustomers}

CatalogNext ==
    \/ \E body \in CatalogBodies : ApiCreateOrder("w1", body)
    \/ \E s \in {2, 9} : CreateOrderRecord("w1", s, NoCustomer, IntQ(1))
    \/ CreateOrderCommit("w1")
    \/ \E o \in DOMAIN orders, s \in {"paid", "shipped"} : MutateOrder("w1", o, s)

CatalogSpec == Init /\ [][CatalogNext]_vars

-----------------------------------------------------------------------------
(* PATCH /orders/<id> on stored and unknown orders, with statuses in and   *)
(* outside the allowed set and in other letter case, while the clock runs  *)
StatusInputs == {"paid", "Refunded", "shipped"}

StatusNext ==
    \/ CreateOrderRecord("w1", 1, NoCustomer, IntQ(1))
    \/ CreateOrderCommit("w1")
    \/ \E o \in DOMAIN orders \cup {UnknownOrder}, s \in StatusInputs : MutateOrder("w1", o, s)
    \/ Tick

StatusSpec == Init /\ [][StatusNext]_vars

-----------------------------------------------------------------------------
(* Callbacks for one order, beside every other operation that writes the   *)
(* store                                                                   *)
LedgerPayloads ==
    {Payload(o, <<"T1">>, Dec(500), "success") : o \in DOMAIN orders}
    \cup {Payload(o, NoId, Dec(500), "failed") : o \in DOMAIN orders \cup {NoId}}

LedgerNext ==
    \/ /\ Len(orderCalls) < MaxOrders
       /\ CreateOrderRecord("w1", 1, NoCustomer, IntQ(1))
    \/ CreateOrderCommit("w1")
    \/ \E o \in DOMAIN orders : MutateOrder("w1", o, "cancelled")
    \/ \E p \in LedgerPayloads : RegisterTransaction("w1", p)
    \/ RecordPaymentLookup("w1")
    \/ RecordPaymentCommit("w1")
    \/ \E o \in DOMAIN orders :
          CreatePayment("w1", [order_id |-> o, amount |-> 900, currency |-> "USD",
                               status |-> "pending", method |-> NoStr,
                               gateway_reference |-> <<"T1">>, user_id |-> 0])

LedgerSpec == Init /\ [][LedgerNext]_vars

-----------------------------------------------------------------------------
(* Callbacks with the statuses the reconciliation tells apart: in upper    *)
(* case, absent, empty, settled or failed, for an order that is stored,     *)
(* unknown or not named, while the clock runs                              *)
SyncPayloads ==
    {Payload(o, <<"T1">>, Dec(500), "SUCCESS") : o \in DOMAIN orders}
    \cup {Payload(o, NoId, Dec(0), s) : o \in DOMAIN orders, s \in {"", "Failed"}}
    \cup {Payload(UnknownOrder, NoId, Dec(0), NoStr)}

SyncNext ==
    \/ /\ Len(orderCalls) < MaxOrders
       /\ CreateOrderRecord("w1", 1, NoCustomer, IntQ(1))
    \/ CreateOrderCommit("w1")
    \/ \E p \in SyncPayloads : RegisterTransaction("w1", p)
    \/ RecordPaymentLookup("w1")
    \/ RecordPaymentCommit("w1")
    \/ Tick

SyncSpec == Init /\ [][SyncNext]_vars

-----------------------------------------------------------------------------
(* Callbacks that do and do not qualify for a Payment: settled, failed,    *)
(* without amount, without order, for a reference POST /payments has used  *)
GatewayPayloads ==
    {Payload(o, <<"T1">>, Dec(500), "SUCCESS") : o \in DOMAIN orders}
    \cup {Payload(o, NoId, Dec(700), "PAID") : o \in DOMAIN orders}
    \cup {Payload(o, <<"T2">>, a, "") : o \in DOMAIN orders, a \in {Dec(0), AmountBad}}
    \cup {Payload(o, <<"T2">>, Dec(500), "Failed") : o \in DOMAIN orders}
    \cup {Payload(NoId, <<"T1">>, Dec(500), "success"),
          Payload(UnknownOrder, NoId, Dec(500), "success")}

GatewayNext ==
    \/ /\ Len(orderCalls) < MaxOrders
       /\ CreateOrderRecord("w1", 1, NoCustomer, IntQ(1))
    \/ CreateOrderCommit("w1")
    \/ \E p \in GatewayPayloads : RegisterTransaction("w1", p)
    \/ RecordPaymentLookup("w1")
    \/ RecordPaymentCommit("w1")
    \/ \E o \in DOMAIN orders :
          CreatePayment("w1", [order_id |-> o, amount |-> 900, currency |-> "USD",
                               status |-> "pending", method |-> "card",
                               gateway_reference |-> <<"T1">>, user_id |-> 0])

GatewaySpec == Init /\ [][GatewayNext]_vars

-----------------------------------------------------------------------------
(* Calls of record_payment for two orders: with a gateway reference, with   *)
(* none, with the empty string, with and without a user, while the clock    *)
(* runs                                                                    *)
PaymentArgs(o, amount, currency, status, method, ref, user) ==
    [order_id |-> o, amount |-> amount, currency |-> currency, status |-> status,
     method |-> method, gateway_reference |-> ref, user_id |-> user]

PaymentCalls ==
    UNION {{PaymentArgs(o, 500, "USD", "pending", NoStr, <<"T1">>, 0),
            PaymentArgs(o, 700, "KHR", "captured", "card", <<"T1">>, 1),
            PaymentArgs(o, 500, "USD", "pending", NoStr, NoId, 0),
            PaymentArgs(o, 500, "USD", "pending", NoStr, EmptyId, 0)} : o \in DOMAIN orders}

PaymentNext ==
    \/ CreateOrderRecord("w1", 1, NoCustomer, IntQ(1))
    \/ CreateOrderCommit("w1")
    \/ \E a \in PaymentCalls : RecordPayment("w1", a)
    \/ RecordPaymentLookup("w1")
    \/ RecordPaymentCommit("w1")
    \/ Tick

PaymentSpec == Init /\ [][PaymentNext]_vars

-----------------------------------------------------------------------------
(* Callbacks that name their order and their transaction under the          *)
(* alternate spellings, each spelling with a value of its own               *)
SpelledPayload(order_ids, tran_ids) ==
    [order_id |-> order_ids[1], orderId |-> order_ids[2], orderID |-> order_ids[3],
     tran_id |-> tran_ids[1], transaction_id |-> tran_ids[2],
     transactionId |-> tran_ids[3], trans_id |-> tran_ids[4],
     amount |-> Dec(0), status |-> "success"]

OrderSpellings ==
    {<<o, <<0, 8>>, <<0, 9>>>> : o \in DOMAIN orders}
    \cup {<<NoId, <<0, 8>>, <<0, 9>>>>, <<EmptyId, NoId, <<0, 9>>>>, <<NoId, NoId, <<0, 9>>>>,
          <<NoId, NoId, NoId>>}

TranSpellings ==
    {<<<<"T1">>, <<"T2">>, <<"T3">>, <<"T4">>>>,
     <<NoId, <<"T2">>, <<"T3">>, <<"T4">>>>,
     <<EmptyId, NoId, <<"T3">>, <<"T4">>>>,
     <<NoId, NoId, NoId, <<"T4">>>>,
     <<NoId, NoId, NoId, NoId>>}

ResolveNext ==
    \/ /\ Len(orderCalls) < MaxOrders
       /\ CreateOrderRecord("w1", 1, NoCustomer, IntQ(1))
    \/ CreateOrderCommit("w1")
    \/ \E o \in OrderSpellings :
          RegisterTransaction("w1", SpelledPayload(o, <<NoId, NoId, NoId, NoId>>))
    \/ \E o \in DOMAIN orders, t \in TranSpellings :
          RegisterTransaction("w1", SpelledPayload(<<o, <<0, 8>>, <<0, 9>>>>, t))

ResolveSpec == Init /\ [][ResolveNext]_vars

-----------------------------------------------------------------------------
(* Orders for customers given as a dict with some of the name keys, as a    *)
(* str, or not at all                                                      *)
NameCustomers ==
    {NoCustomer,
     TextCustomer("Ann"),
     [name |-> "Ann"],
     [fullName |-> "A. Lee"],
     [name |-> "Ann", full_name |-> "Ann Lee"],
     [name |-> "Ann", fullName |-> "A. Lee", email |-> "a@x"]}

NameNext ==
    \/ \E s \in {1, 2}, c \in NameCustomers : CreateOrderRecord("w1", s, c, IntQ(1))
    \/ CreateOrderCommit("w1")

NameSpec == Init /\ [][NameNext]_vars

-----------------------------------------------------------------------------
(* PATCH /orders/<id> with every allowed status, on an order whose status   *)
(* the callbacks of the gateway have written before                        *)
TransitionStatuses == {"success", "declined"}

TransitionNext ==
    \/ /\ Len(orderCalls) < MaxOrders
       /\ CreateOrderRecord("w1", 1, NoCustomer, IntQ(1))
    \/ CreateOrderCommit("w1")
    \/ \E o \in DOMAIN orders, st \in TransitionStatuses :
          RegisterTransaction("w1", Payload(o, <<"T1">>, Dec(0), st))
    \/ \E o \in DOMAIN orders, s \in AllowedStatuses : MutateOrder("w1", o, s)

TransitionSpec == Init /\ [][TransitionNext]_vars

-----------------------------------------------------------------------------
(* Checkout requests that create their order, or name a stored order of     *)
(* another service and quantity than the request's                         *)
QuoteNext ==
    \/ \E s \in {2, 3} : CreateOrderRecord("w1", s, NoCustomer, IntQ(3))
    \/ CreateOrderCommit("w1")
    \/ \E o \in DOMAIN orders \cup {NoId, UnknownOrder}, config \in CheckoutConfigs :
          /\ o = NoId => OrderCallRoom
          /\ ApiPaywayCheckout("w1", config, CheckoutBody(1, o, IntQ(2), NoCustomer))
    \/ \E o \in DOMAIN orders \cup {NoId}, config \in CheckoutConfigs :
          RoutesPaywayCheckout("w1", config, CheckoutBody(1, o, IntQ(2), NoCustomer))

QuoteSpec == Init /\ [][QuoteNext]_vars

-----------------------------------------------------------------------------
(* One caller signing checkouts whose fields are present or empty one by    *)
(* one, for customers who supply any part of their details                 *)
EnvelopeClients ==
    {[merchant_id |-> m, api_key |-> "k", checkout_url |-> "c", return_url |-> r,
      cancel_url |-> "x"] : m \in {"", "m"}, r \in {"", "r"}}

EnvelopeCustomers ==
    {NoCustomer,
     [name |-> "n", email |-> "", phone |-> ""],
     [name |-> "", email |-> "e", phone |-> "p"],
     [name |-> "n", email |-> "e", phone |-> "p"]}

EnvelopeNext ==
    \E client \in EnvelopeClients, customer \in EnvelopeCustomers :
        \E order_id \in {"", "a"}, amount \in {"", "1.00"}, items \in {"", "b"},
           currency \in {"", "USD"} :
            CreateCheckoutPayload("w1", client, order_id, amount, items, customer, currency)

EnvelopeSpec == Init /\ [][EnvelopeNext]_vars

-----------------------------------------------------------------------------
(* Callbacks that carry no transaction id of their own, for a stored order  *)
(* and for an unknown one, beside one that carries an id                   *)
FallbackPayloads ==
    {Payload(o, NoId, Dec(0), "failed") : o \in DOMAIN orders \cup {UnknownOrder}}
    \cup {Payload(o, NoId, Dec(500), "success") : o \in DOMAIN orders \cup {UnknownOrder}}
    \cup {Payload(o, <<"T1">>, Dec(0), "failed") : o \in DOMAIN orders}

FallbackNext ==
    \/ /\ Len(orderCalls) < MaxOrders
       /\ CreateOrderRecord("w1", 1, NoCustomer, IntQ(1))
    \/ CreateOrderCommit("w1")
    \/ \E p \in FallbackPayloads : RegisterTransaction("w1", p)
    \/ RecordPaymentLookup("w1")
    \/ RecordPaymentCommit("w1")

FallbackSpec == Init /\ [][FallbackNext]_vars

-----------------------------------------------------------------------------
(* Two requests at a time delivering callbacks with one transaction id, one *)
(* reporting a success and one a failure                                   *)
RacePayloads ==
    {Payload(o, <<"T1">>, Dec(500), "success") : o \in DOMAIN orders}
    \cup {Payload(o, <<"T1">>, Dec(0), "failed") : o \in DOMAIN orders}

RaceNext ==
    \/ /\ Len(orderCalls) < MaxOrders
       /\ CreateOrderRecord("w1", 1, NoCustomer, IntQ(1))
    \/ CreateOrderCommit("w1")
    \/ \E w \in {"w1", "w2"} :
          \/ \E p \in RacePayloads : RegisterTransaction(w, p)
          \/ RecordPaymentLookup(w)
          \/ RecordPaymentCommit(w)

RaceSpec == Init /\ [][RaceNext]_vars

-----------------------------------------------------------------------------
(* What the claims read *)

RT == "register_transaction"

Failed(r) == r.outcome \in {"unavailable", "integrity"}

PaymentsFor(ref) == {q \in payments : q.gateway_reference = ref}

TransactionsFor(tid) == {t \in transactions : t.tran_id = tid}

\* Transaction rows, Payment rows and Order statuses
Ledger == <<transactions, payments, [o \in DOMAIN orders |-> orders[o].status]>>

\* p is a success callback with a non-zero amount for an existing order, and the audit
\* trail holds an earlier success callback for the same order and transaction id with
\* another non-zero amount
SecondOfPair(p) ==
    /\ Truthy(p.tran_id)
    /\ PayloadStatus(p) = "success"
    /\ PayloadAmount(p) # 0
    /\ PayloadOrderId(p) \in DOMAIN orders
    /\ \E t \in TransactionsFor(PayloadTranId(p)) :
          /\ t.order_id = PayloadOrderId(p)
          /\ t.status = "success"
          /\ t.amount_value \notin {0, PayloadAmount(p)}

\* C1: after the second of two success callbacks with the same transaction id and
\* different non-zero amounts for an existing order, exactly one Payment carries that
\* gateway reference and its amount is the second callback's.
C1_SecondAmountWins ==
    \A w \in Workers :
        (/\ result[w].op = RT
         /\ result[w].outcome # "unavailable"
         /\ SecondOfPair(result[w].payload))
        => /\ Cardinality(PaymentsFor(PayloadTranId(result[w].payload))) = 1
           /\ \A q \in PaymentsFor(PayloadTranId(result[w].payload)) :
                 q.amount = PayloadAmount(result[w].payload)

\* the worker is in, or has just ended, a delivery of the payload it delivered just before
Redelivering(w) ==
    \/ req[w].op = RT /\ req[w].after \in {"ok", "integrity"}
    \/ result[w].op = RT /\ result[w].after \in {"ok", "integrity"}

\* C2: a register_transaction call with the payload of the call before it leaves the
\* Transaction rows, the Payment rows and the Order statuses as that call left them.
C2_RepeatedDeliveryChangesNothing ==
    [][(\E w \in Workers : Redelivering(w)') => Ledger' = Ledger]_vars

\* C3: a callback whose tran_id an existing Transaction row carries adds no second row
\* with that tran_id and returns without an error.
C3_DuplicateTranIdIsNoOp ==
    \A w \in Workers :
        (result[w].op = RT /\ result[w].dup /\ result[w].outcome # "unavailable")
        => /\ Cardinality(TransactionsFor(PayloadTranId(result[w].payload))) = 1
           /\ result[w].outcome = "ok"

\* C4: a register_transaction call that ends in a persistence error leaves no
\* Transaction row of its own, and the orders and the payments as they were before it.
C4_FailedIngestionRolledBack ==
    \A w \in Workers :
        (result[w].op = RT /\ Failed(result[w]))
        => /\ \A t \in transactions : t.id # result[w].txn
           /\ orders = result[w].before[1]
           /\ payments = result[w].before[2]

\* the callback of C5: success, non-zero amount, for the first order of the process
RetriedPayload == Payload(<<0, 1>>, <<"T1">>, Dec(500), "success")

RetriedFailed ==
    /\ <<0, 1>> \in DOMAIN orders
    /\ result["w1"].op = RT
    /\ result["w1"].payload = RetriedPayload
    /\ result["w1"].outcome = "unavailable"

RetriedDone ==
    /\ TransactionsFor(<<"T1">>) # {}
    /\ <<0, 1>> \in DOMAIN orders
    /\ orders[<<0, 1>>].status = "paid"
    /\ PaymentsFor(<<"T1">>) # {}

\* C5: once a delivery of the callback has failed on the store, if the gateway keeps
\* redelivering it and the store from some time on accepts writes, then at some time
\* the Transaction row exists, the order is paid and the Payment row exists.
C5_RedeliveryCompletesIngestion ==
    (/\ <>RetriedFailed
     /\ []<><<RegisterTransaction("w1", RetriedPayload)>>_vars
     /\ <>[]storeUp)
    => <>RetriedDone

\* C6: no two Payment rows carry the same non-null gateway_reference.
C6_GatewayReferenceUnique ==
    \A p, q \in payments :
        (p.gateway_reference # NoId /\ p.gateway_reference = q.gateway_reference) => p = q

\* a writer that looked the reference up, found no row, and lost the race to insert it
C6_Witness ==
    \E w \in Workers :
        /\ result[w].op \in {RT, "create_payment"}
        /\ result[w].outcome = "integrity"
        /\ result[w].op = RT => result[w].txn # 0
        /\ \E q \in payments : q.gateway_reference = <<"T1">>

\* C7: every Order's status is one of the six allowed statuses.
C7_OrderStatusAllowed == \A o \in DOMAIN orders : orders[o].status \in AllowedStatuses

Drawn(proc) ==
    {<<"call", i>> : i \in {j \in DOMAIN orderCalls : orderCalls[j].proc = proc}}
    \cup {<<"worker", w>> : w \in {v \in Workers : ProcOf(v) = proc /\ pc[v] = "order_commit"}}

DrawnId(d) == IF d[1] = "call" THEN orderCalls[d[2]].id ELSE req[d[2]].id

\* C9: any two order-creation calls of one process have different order ids.
C9_SameProcessIdsDistinct ==
    \A proc \in Procs : \A d, e \in Drawn(proc) : d # e => DrawnId(d) # DrawnId(e)

\* two threads of one process about to commit orders stamped with the same second
C9_Witness ==
    /\ pc["w1"] = "order_commit"
    /\ pc["w2"] = "order_commit"
    /\ req["w1"].id[1] = req["w2"].id[1]

\* C10: order creations of several server processes sharing the store get different
\* order ids and none is refused by the store's primary key.
C10_AllProcessesIdsDistinct ==
    /\ \A i, j \in DOMAIN orderCalls : i # j => orderCalls[i].id # orderCalls[j].id
    /\ \A i \in DOMAIN orderCalls : orderCalls[i].outcome # "integrity"


\* the call's payload is a success callback with a non-zero amount for an order that
\* existed, carrying a transaction id that no Transaction row and no Payment row held
FreshSuccess(r) ==
    /\ r.op = RT
    /\ PayloadStatus(r.payload) = "success"
    /\ PayloadAmount(r.payload) # 0
    /\ PayloadOrderId(r.payload) \in DOMAIN r.before[1]
    /\ ~r.dup
    /\ \A q \in r.before[2] : q.gateway_reference # PayloadTranId(r.payload)

\* C11: a register_transaction call that returns, for a success callback with a non-zero
\* amount, an existing order and a transaction id not seen before, leaves the order paid
\* and a Payment row of that order with status captured and the callback's amount.
C11_SuccessPaysOrder ==
    \A w \in Workers :
        (FreshSuccess(result[w]) /\ result[w].outcome = "ok")
        => /\ orders[PayloadOrderId(result[w].payload)].status = "paid"
           /\ \E q \in payments :
                 /\ q.order_id = PayloadOrderId(result[w].payload)
                 /\ q.gateway_reference = PayloadTranId(result[w].payload)
                 /\ q.status = "captured"
                 /\ q.amount = PayloadAmount(result[w].payload)
           /\ Cardinality(payments) = Cardinality(result[w].before[2]) + 1

\* such a call has returned for an order of two units
C11_Witness ==
    /\ FreshSuccess(result["w1"])
    /\ result["w1"].outcome = "ok"
    /\ orders[PayloadOrderId(result["w1"].payload)].quantity = 2
    /\ \E q \in payments : q.status = "captured" /\ q.amount = 500


\* C12: once the success webhook has been answered for the id of an existing order, the
\* order is paid, and payments_summary counts one Payment more than before the webhook,
\* its total larger by the order's amount.
C12_WebhookPaysOrder ==
    \A w \in Workers :
        (/\ result[w].op = "payment_success"
         /\ result[w].form.order_id \in DOMAIN orders)
        => /\ orders[result[w].form.order_id].status = "paid"
           /\ payments_summary.count = result[w].summary.count + 1
           /\ payments_summary.total_amount =
                 result[w].summary.total_amount + orders[result[w].form.order_id].amount

\* C13: the success webhook answers with a redirect, never with a server error.
C13_WebhookAlwaysRedirects ==
    \A w \in Workers :
        result[w].op = "payment_success" => result[w].outcome = "redirect"


\* C14: a callback naming an order id the store does not hold is accepted: the call
\* returns without an error, one Transaction row of the call is recorded, and the orders
\* are as they were.
C14_UnknownOrderAccepted ==
    \A w \in Workers :
        (/\ result[w].op = RT
         /\ Truthy(PayloadOrderId(result[w].payload))
         /\ PayloadOrderId(result[w].payload) \notin DOMAIN result[w].before[1]
         /\ ~result[w].dup
         /\ result[w].outcome # "unavailable")
        => /\ result[w].outcome = "ok"
           /\ Cardinality({t \in transactions : t.id = result[w].txn}) = 1
           /\ orders = result[w].before[1]


\* the payload has no timestamp, or one that is no ISO-8601 string
TimestampUnusable(p) == "timestamp" \notin DOMAIN p \/ p.timestamp.kind # "iso"

\* the payload has no amount, or one that Decimal refuses
AmountUnusable(p) == p.amount.kind # "dec"

\* C15: a callback whose timestamp is missing or does not parse is recorded with the
\* clock's time at ingestion, one whose amount is missing or does not parse with amount
\* zero, and the call does not fail.
C15_ParseFailuresStillRecorded ==
    \A w \in Workers :
        (/\ result[w].op = RT
         /\ ~result[w].dup
         /\ TimestampUnusable(result[w].payload) \/ AmountUnusable(result[w].payload))
        => /\ result[w].outcome = "ok"
           /\ \E t \in transactions :
                 /\ t.id = result[w].txn
                 /\ TimestampUnusable(result[w].payload) => t.timestamp = result[w].at
                 /\ AmountUnusable(result[w].payload) => t.amount_value = 0

\* a callback with an unparsable timestamp and an unparsable amount, recorded after the
\* clock has moved on
C15_Witness ==
    /\ result["w1"].op = RT
    /\ result["w1"].outcome = "ok"
    /\ "timestamp" \in DOMAIN result["w1"].payload
    /\ result["w1"].payload.timestamp = BadT
    /\ result["w1"].payload.amount = AmountBad
    /\ result["w1"].at = 1
    /\ \E t \in transactions : t.id = result["w1"].txn /\ t.timestamp = 1


Signed(w) == result[w].op = "create_checkout_payload"

\* the fields the signing contract names
ContractFields ==
    <<"merchant_id", "order_id", "amount", "currency", "items", "return_url", "cancel_url">>

\* the contract's fields in which two payloads differ
DifferingFields(p, q) == {i \in DOMAIN ContractFields : p[ContractFields[i]] # q[ContractFields[i]]}

\* C16: two create_checkout_payload calls with the same API key and the same values of
\* all signing fields yield the same hash, whatever their customers.
C16_SigningDeterministic ==
    (/\ Signed("w1") /\ Signed("w2")
     /\ result["w1"].client.api_key = result["w2"].client.api_key
     /\ DifferingFields(result["w1"].out.payload, result["w2"].out.payload) = {})
    => result["w1"].out.payload.hash = result["w2"].out.payload.hash

\* two calls alike but for the customer
C16_Witness ==
    /\ Signed("w1") /\ Signed("w2")
    /\ result["w1"].client = result["w2"].client
    /\ DifferingFields(result["w1"].out.payload, result["w2"].out.payload) = {}
    /\ result["w1"].customer # result["w2"].customer
    /\ result["w1"].out.payload.order_id = "a|b"

\* C17 as stated: two create_checkout_payload calls with the same API key whose inputs
\* differ in the value of a signing field have different signing strings and different
\* hashes.
C17_AnyDifferenceChangesHash ==
    (/\ Signed("w1") /\ Signed("w2")
     /\ result["w1"].client.api_key = result["w2"].client.api_key
     /\ DifferingFields(result["w1"].out.payload, result["w2"].out.payload) # {})
    => /\ signing_string(result["w1"].out.payload) # signing_string(result["w2"].out.payload)
       /\ result["w1"].out.payload.hash # result["w2"].out.payload.hash

\* C17, amended: two create_checkout_payload calls with the same API key whose inputs
\* differ in the value of exactly one signing field, empty values included, and agree on
\* the others, have different signing strings and different hashes.
C17_SigningSensitive ==
    (/\ Signed("w1") /\ Signed("w2")
     /\ result["w1"].client.api_key = result["w2"].client.api_key
     /\ Cardinality(DifferingFields(result["w1"].out.payload, result["w2"].out.payload)) = 1)
    => /\ signing_string(result["w1"].out.payload) # signing_string(result["w2"].out.payload)
       /\ result["w1"].out.payload.hash # result["w2"].out.payload.hash

\* two calls that differ only in the items, which one of them leaves empty
C17_Witness ==
    /\ Signed("w1") /\ Signed("w2")
    /\ result["w1"].client.api_key = result["w2"].client.api_key
    /\ DifferingFields(result["w1"].out.payload, result["w2"].out.payload) = {5}
    /\ result["w1"].out.payload.items = ""
    /\ result["w2"].out.payload.items = "b"


\* the raw quantity is no number, or a number that is zero or negative
NotPositive(raw) ==
    \/ raw.kind \in {"none", "other_str"}
    \/ raw.kind \in {"int", "float"} /\ raw.v <= 0
    \/ raw.kind = "inf" /\ raw.v < 0

\* C20: create_order_record for an existing service stores quantity 1 and does not reject
\* the request when the quantity is non-numeric, zero or negative, and stores the
\* quantity itself when it is a positive integer.
C20_QuantityCoerced ==
    \A w \in Workers :
        (result[w].op = "create_order_record" /\ result[w].outcome \notin {"unavailable", "not_found"})
        => /\ NotPositive(result[w].raw) =>
                /\ result[w].outcome = "ok"
                /\ orders[result[w].id].quantity = 1
           /\ (result[w].raw.kind = "int" /\ result[w].raw.v > 0) =>
                /\ result[w].outcome = "ok"
                /\ orders[result[w].id].quantity = result[w].raw.v


\* the merchant id or the API key is empty or the placeholder, or a URL is empty
Misconfigured(config) ==
    \/ config.ABA_PAYWAY_MERCHANT_ID \in {"", "YOUR_MERCHANT_ID"}
    \/ config.ABA_PAYWAY_API_KEY \in {"", "YOUR_API_KEY"}
    \/ config.ABA_PAYWAY_CHECKOUT_URL = ""
    \/ config.ABA_PAYWAY_RETURN_URL = ""
    \/ config.ABA_PAYWAY_CANCEL_URL = ""

CheckoutOps == {"payway_checkout", "routes_payway_checkout"}

\* a request of the api blueprint's handler that got as far as building the client
ReachedClient(r) ==
    r.op = "payway_checkout" /\ r.outcome \notin {"unavailable", "bad_request", "not_found", "integrity"}

\* C18: with a misconfigured gateway, building the client fails with a PaywayError, and
\* no checkout request ends with a payload or a hash.
C18_NoSigningWhenMisconfigured ==
    /\ \A config \in CheckoutConfigs : Misconfigured(config) => from_app(config).error # ""
    /\ \A w \in Workers :
          (result[w].op \in CheckoutOps /\ Misconfigured(result[w].config))
          => /\ result[w].out = NoPayload
             /\ ReachedClient(result[w]) => result[w].error = "PaywayError"

\* a checkout that created its order and then failed on the placeholder API key
C18_Witness ==
    /\ ReachedClient(result["w1"])
    /\ result["w1"].config.ABA_PAYWAY_API_KEY = "YOUR_API_KEY"
    /\ result["w1"].error = "PaywayError"
    /\ result["w1"].before = <<>>
    /\ orders # <<>>

\* C19: a checkout request with a valid body against a misconfigured gateway is
\* answered with 502.
C19_MisconfiguredIsBadGateway ==
    \A w \in Workers :
        (/\ result[w].op \in CheckoutOps
         /\ Misconfigured(result[w].config)
         /\ result[w].body.serviceId \in ServiceIds
         /\ result[w].body.orderId \in DOMAIN result[w].before \cup {NoId})
        => result[w].outcome = "bad_gateway"


\* a quantity that is a number with a fractional part, such as 2.5
Fractional(raw) == raw.kind = "float" /\ raw.v % 10 # 0

\* C21: create_order_record for an existing service, given a fractional quantity, stores
\* quantity 1: the value is neither cut to another integer nor rejected.
C21_FractionalQuantityBecomesOne ==
    \A w \in Workers :
        (/\ result[w].op = "create_order_record"
         /\ result[w].outcome \notin {"unavailable", "not_found"}
         /\ Fractional(result[w].raw))
        => /\ result[w].outcome = "ok"
           /\ orders[result[w].id].quantity = 1


\* the row that carried the call's normalized e-mail when the call looked it up
KnownUser(r) == {u \in r.before : u.email = NormalizedEmail(r.email)}

\* C24: create_user with an e-mail that, trimmed and lower-cased, is the e-mail of a
\* stored user returns that user's row and leaves every row as it was; no two user rows
\* ever share their normalized e-mail.
C24_ExistingUserReturnedUnchanged ==
    /\ \A u, v \in users : NormalizedEmail(u.email) = NormalizedEmail(v.email) => u = v
    /\ \A w \in Workers :
          (result[w].op = "create_user" /\ result[w].outcome # "unavailable"
           /\ KnownUser(result[w]) # {})
          => /\ result[w].outcome = "ok"
             /\ result[w].returned \in KnownUser(result[w])
             /\ result[w].before \subseteq users

\* a call whose address and fields differ from the stored user's, answered with that user
C24_Witness ==
    /\ result["w2"].op = "create_user"
    /\ result["w2"].outcome = "ok"
    /\ result["w2"].email = " A@x "
    /\ KnownUser(result["w2"]) # {}
    /\ result["w2"].returned.email = "a@x"
    /\ result["w2"].returned.full_name # result["w2"].full_name
    /\ result["w2"].returned.phone # result["w2"].phone


OrderCreations == {"create_order", "create_order_record"}

\* the step in which worker w ends an order creation for a service id that the catalog
\* does not resolve, with the store answering
UnresolvedServiceStep(w) ==
    /\ result'[w] # result[w]
    /\ result'[w].op \in OrderCreations
    /\ result'[w].service_id \notin ServiceIds
    /\ result'[w].outcome \notin {"unavailable", "bad_request"}

\* C22: order creation for a service id outside the catalog ends not found (IndexError
\* in create_order_record, 404 at POST /orders) and leaves the orders table as it was:
\* no row added, no row changed.
C22_UnknownServiceNotFound ==
    [][\A w \in Workers :
          UnresolvedServiceStep(w) => /\ result'[w].outcome = "not_found"
                                      /\ orders' = orders]_vars

\* POST /orders for an unknown service, refused while an order made earlier is stored
C22_Witness ==
    /\ result["w1"].op = "create_order"
    /\ result["w1"].service_id = 9
    /\ result["w1"].outcome = "not_found"
    /\ result["w1"].body.customer # NoCustomer
    /\ \E o \in DOMAIN orders : orders[o].status = "paid"


\* the statuses an order may take, as the contract lists them
ContractStatuses == {"pending", "processing", "paid", "cancelled", "refunded", "failed"}

\* the step is PATCH /orders/<o> with status s, answered by the store
PatchStep(o, s) == MutateOrder("w1", o, s) /\ result'["w1"].outcome # "unavailable"

\* C23 as it is written: a status outside the allowed set is refused with a validation
\* error and leaves the orders as they were; an allowed status on an unknown order id is
\* answered not found and leaves the orders as they were.
C23_StatusOutsideSetRefused ==
    [][\A o \in DOMAIN orders \cup {UnknownOrder}, s \in StatusInputs :
          PatchStep(o, s) =>
              /\ s \notin ContractStatuses =>
                    result'["w1"].outcome = "bad_request" /\ orders' = orders
              /\ (s \in ContractStatuses /\ o \notin DOMAIN orders) =>
                    result'["w1"].outcome = "not_found" /\ orders' = orders]_vars

\* C23, amended: a status whose lower-cased form is outside the allowed set is refused
\* with a validation error and leaves the orders as they were, status and updated_at
\* included; a status whose lower-cased form is allowed, on an unknown order id, is
\* answered not found and leaves the orders as they were.
C23_LoweredStatusOutsideSetRefused ==
    [][\A o \in DOMAIN orders \cup {UnknownOrder}, s \in StatusInputs :
          PatchStep(o, s) =>
              /\ Lower(s) \notin ContractStatuses =>
                    result'["w1"].outcome = "bad_request" /\ orders' = orders
              /\ (Lower(s) \in ContractStatuses /\ o \notin DOMAIN orders) =>
                    result'["w1"].outcome = "not_found" /\ orders' = orders]_vars

\* a refused update of an order that was last written before the present second
C23_Witness ==
    /\ result["w1"].op = "mutate_order"
    /\ result["w1"].outcome = "bad_request"
    /\ \E o \in DOMAIN orders : orders[o].status = "paid" /\ orders[o].updated_at < now


\* C25: the transactions table is append-only: every row that is stored stays stored with
\* all its fields through every later operation, so the number of rows never decreases.
C25_TransactionsAppendOnly ==
    [][/\ transactions \subseteq transactions'
       /\ Cardinality(transactions') >= Cardinality(transactions)]_vars

\* two callbacks of one order stored, and the order and its payment written afterwards
C25_Witness ==
    /\ Cardinality(transactions) = 2
    /\ \E t, u \in transactions : t # u /\ t.order_id = u.order_id /\ t.order_id # NoId
    /\ payments # {}
    /\ result["w1"].op = "mutate_order"
    /\ result["w1"].outcome = "ok"


\* the payload of the register_transaction call that worker w has running or has ended
Delivered(w) == IF req[w].op = RT THEN req[w].payload ELSE result[w].payload

\* the step in which worker w's register_transaction commits its Transaction row
CommitsTransaction(w) ==
    /\ transactions' # transactions
    /\ \/ req'[w].op = RT /\ req[w].op # RT
       \/ result'[w].op = RT /\ result'[w] # result[w]

\* the callback status as the contract normalizes it
ContractStatus(p) == Lower(IF p.status \in {NoStr, ""} THEN "success" ELSE p.status)

\* the first order id the callback carries
ContractOrderId(p) ==
    IF p.order_id \notin {NoId, EmptyId} THEN p.order_id
    ELSE IF p.orderId \notin {NoId, EmptyId} THEN p.orderId
    ELSE p.orderID

\* C26: when register_transaction commits, the stored status is the callback's status
\* lower-cased, success when absent or empty; an existing order of the callback gets
\* status paid for success and the normalized status itself otherwise, with updated_at
\* refreshed, and every other order stays as it was; a callback whose order id resolves
\* to no order touches no order.
C26_OrderSynchronised ==
    [][\A w \in Workers :
          CommitsTransaction(w) =>
             LET p == Delivered(w)'
                 oid == ContractOrderId(p)
                 status == ContractStatus(p)
             IN /\ \E t \in transactions' \ transactions : t.status = status
                /\ IF oid \in DOMAIN orders
                   THEN orders' = [orders EXCEPT
                                      ![oid].status = IF status = "success" THEN "paid"
                                                      ELSE status,
                                      ![oid].updated_at = now]
                   ELSE orders' = orders]_vars

\* a failed callback delivered in upper-case spelling has moved an order created earlier
C26_Witness ==
    /\ result["w1"].op = RT
    /\ result["w1"].outcome = "ok"
    /\ result["w1"].payload.status = "Failed"
    /\ \E o \in DOMAIN orders :
          /\ orders[o].status = "failed"
          /\ orders[o].updated_at > orders[o].created_at


\* the callback carries an order id, a non-zero amount and a status of success or paid
Qualifies(p) ==
    /\ ContractOrderId(p) \notin {NoId, EmptyId}
    /\ p.amount.kind = "dec" /\ p.amount.v # 0
    /\ ContractStatus(p) \in {"success", "paid"}

\* a register_transaction call that has returned
Returned(r) == r.op = RT /\ r.outcome = "ok"

\* the Transaction row of a returned call
RowOf(r) == CHOOSE t \in transactions : t.id = r.txn

\* C27: a register_transaction call that returns has its Transaction row stored and the
\* callback's order, when that is stored, set to the callback's status. If the
\* callback carries an order id, a non-zero amount and a status of success or paid, one
\* Payment with the row's transaction id as gateway_reference holds method 'ABA PayWay',
\* the callback's amount, and status captured for success, paid for paid, and every
\* other Payment is as it was before the call; otherwise the payments are as they were
\* before the call.
C27_PaymentOnlyWhenSettled ==
    \A w \in Workers :
        Returned(result[w]) =>
            LET p == result[w].payload
                before == result[w].before[2]
            IN /\ \E t \in transactions : t.id = result[w].txn
               /\ ContractOrderId(p) \in DOMAIN orders =>
                     orders[ContractOrderId(p)].status =
                        IF ContractStatus(p) = "success" THEN "paid" ELSE ContractStatus(p)
               /\ IF Qualifies(p)
                  THEN /\ \E q \in payments :
                             /\ q.gateway_reference = RowOf(result[w]).tran_id
                             /\ q.method = "ABA PayWay"
                             /\ q.amount = p.amount.v
                             /\ q.status = IF ContractStatus(p) = "success" THEN "captured"
                                           ELSE ContractStatus(p)
                       /\ \A q \in payments :
                             q \in before \/ q.gateway_reference = RowOf(result[w]).tran_id
                       /\ Cardinality(payments) <= Cardinality(before) + 1
                       /\ Cardinality(payments) >= Cardinality(before)
                  ELSE payments = before

\* a failed callback with an amount has returned: the order is failed, a Payment written
\* earlier is untouched
C27_Witness ==
    /\ Returned(result["w1"])
    /\ result["w1"].payload.status = "Failed"
    /\ result["w1"].payload.amount = Dec(500)
    /\ orders[result["w1"].payload.order_id].status = "failed"
    /\ \E q \in payments : q.status = "captured"


\* the Payments that carried the call's gateway reference when the call began
KnownPayment(r) ==
    IF r.call.gateway_reference \in {NoId, EmptyId} THEN {}
    ELSE {q \in r.before : q.gateway_reference = r.call.gateway_reference}

\* row q holds the values of call a, written during the call
HoldsCall(q, r) ==
    /\ q.amount = r.call.amount
    /\ q.currency = r.call.currency
    /\ q.status = r.call.status
    /\ q.method = r.call.method
    /\ q.processed_at >= r.at
    /\ q.processed_at <= now

\* C28: a record_payment call that returns, given a gateway_reference that a Payment
\* carries, adds no row and leaves that Payment with its id and order_id, also when the
\* call names another order, and with the call's amount, currency, status, method, a
\* processed_at of the call's time, and the call's user_id when it has one; given no
\* gateway_reference or one that no Payment carries, it adds exactly one Payment, of the
\* call's order and values. Every other Payment stays as it was.
C28_UpsertByGatewayReference ==
    \A w \in Workers :
        (result[w].op = "record_payment" /\ result[w].outcome = "ok") =>
            LET r == result[w] IN
            IF KnownPayment(r) # {}
            THEN \E old \in KnownPayment(r), q \in payments :
                    /\ payments \ {q} = r.before \ {old}
                    /\ Cardinality(payments) = Cardinality(r.before)
                    /\ q.id = old.id
                    /\ q.order_id = old.order_id
                    /\ q.gateway_reference = old.gateway_reference
                    /\ q.user_id = IF r.call.user_id # 0 THEN r.call.user_id ELSE old.user_id
                    /\ HoldsCall(q, r)
            ELSE \E q \in payments :
                    /\ q \notin r.before
                    /\ payments = r.before \cup {q}
                    /\ \A old \in r.before : old.id # q.id
                    /\ q.order_id = r.call.order_id
                    /\ q.gateway_reference = r.call.gateway_reference
                    /\ q.user_id = r.call.user_id
                    /\ HoldsCall(q, r)

\* an update, at a later second and with a user, by a call that names another order than
\* the Payment's
C28_Witness ==
    /\ result["w1"].op = "record_payment"
    /\ result["w1"].outcome = "ok"
    /\ result["w1"].call.user_id # 0
    /\ \E old \in KnownPayment(result["w1"]) :
          /\ old.order_id # result["w1"].call.order_id
          /\ old.processed_at < result["w1"].at


RECURSIVE FirstPresent(_)
\* the first value of a sequence of fields that is present and not empty, NoId when
\* there is none
FirstPresent(values) ==
    IF values = <<>> THEN NoId
    ELSE IF Head(values) \notin {NoId, EmptyId} THEN Head(values)
    ELSE FirstPresent(Tail(values))

OrderFields(p) == <<p.order_id, p.orderId, p.orderID>>
TranFields(p) == <<p.tran_id, p.transaction_id, p.transactionId, p.trans_id>>

\* C29: the Transaction row of a register_transaction call that returns carries as order
\* id the first value present among order_id, orderId, orderID, no order id when none is
\* present, and as transaction id the first value present among tran_id, transaction_id,
\* transactionId, trans_id, and its own order id when none of these is present.
C29_FirstSpellingWins ==
    \A w \in Workers :
        Returned(result[w]) =>
            LET p == result[w].payload
                row == RowOf(result[w])
            IN /\ IF FirstPresent(OrderFields(p)) # NoId
                  THEN row.order_id = FirstPresent(OrderFields(p))
                  ELSE row.order_id \in {NoId, EmptyId}
               /\ IF FirstPresent(TranFields(p)) # NoId
                  THEN row.tran_id = FirstPresent(TranFields(p))
                  ELSE row.tran_id = row.order_id

\* a callback that names a stored order and two other order ids, and no transaction id,
\* beside one that named four transaction ids
C29_Witness ==
    /\ Returned(result["w1"])
    /\ result["w1"].payload.order_id \in DOMAIN orders
    /\ result["w1"].payload.orderId # NoId
    /\ FirstPresent(TranFields(result["w1"].payload)) = NoId
    /\ RowOf(result["w1"]).tran_id = result["w1"].payload.order_id
    /\ \E t \in transactions : t.tran_id = <<"T1">>


\* the customer's full-name field, "" when the customer has none
FullNameField(customer) ==
    IF Field(customer, "full_name") # "" THEN Field(customer, "full_name")
    ELSE Field(customer, "fullName")

\* C30: the customer_name of a new order, for a customer given as a map, is the map's
\* full-name field when it has one, else its name field when it has one, else 'Guest'.
C30_FullNameBeforeName ==
    \A w \in Workers :
        (/\ result[w].op = "create_order_record"
         /\ result[w].outcome = "ok"
         /\ DOMAIN result[w].customer # {"text"})
        => orders[result[w].id].customer_name =
              IF FullNameField(result[w].customer) # "" THEN FullNameField(result[w].customer)
              ELSE IF Field(result[w].customer, "name") # "" THEN Field(result[w].customer, "name")
              ELSE "Guest"


\* C31: PATCH /orders/<id> restricts no transition: for every stored order, whatever its
\* status, and every status of the allowed set, the update succeeds and the order's
\* status becomes the new one.
C31_AnyTransitionAllowed ==
    [][\A o \in DOMAIN orders, s \in AllowedStatuses :
          MutateOrder("w1", o, s)
          => /\ result'["w1"].outcome = "ok"
             /\ orders'[o].status = s]_vars

\* an order that a callback of the gateway had paid, moved back to pending
C31_Witness ==
    /\ result["w1"].op = "mutate_order"
    /\ result["w1"].outcome = "ok"
    /\ \E o \in DOMAIN orders :
          /\ orders[o].status = "pending"
          /\ \E t \in transactions : t.order_id = o /\ t.status = "success"


\* the order a finished checkout of the api blueprint used: the one its body names,
\* or the one it created
OrderUsed(r) ==
    IF r.body.orderId # NoId THEN r.body.orderId
    ELSE CHOOSE o \in DOMAIN orders : o \notin DOMAIN r.before

\* C32: the payload of a checkout carries the id of the order used, named by the
\* request or created by it, and that order's stored amount with two decimals, whatever
\* the catalog price of the service the request names.
C32_PayloadQuotesOrder ==
    \A w \in Workers :
        (result[w].op \in CheckoutOps /\ result[w].outcome = "ok")
        => /\ result[w].op = "payway_checkout"
           /\ OrderUsed(result[w]) \in DOMAIN orders
           /\ result[w].out.payload.order_id = OrderIdText(OrderUsed(result[w]))
           /\ result[w].out.payload.amount = AmountText(orders[OrderUsed(result[w])].amount)
           /\ (result[w].body.orderId = NoId /\ result[w].body.quantity = IntQ(2)
                  /\ ServicePrice[result[w].body.serviceId] = 999)
               => result[w].out.payload.amount = "19.98"

\* a checkout for service 1 that named a stored order of three units of service 2
C32_Witness ==
    /\ result["w1"].op = "payway_checkout"
    /\ result["w1"].outcome = "ok"
    /\ result["w1"].body.orderId # NoId
    /\ result["w1"].body.serviceId = 1
    /\ orders[result["w1"].body.orderId].service_id = 2
    /\ result["w1"].out.payload.amount = "89.97"


RECURSIVE JoinPresent(_, _)
\* the values of the named fields that are not empty, in the order of the names, with
\* "|" between them
JoinPresent(fields, payload) ==
    IF fields = <<>> THEN ""
    ELSE LET v == payload[Head(fields)]
             rest == JoinPresent(Tail(fields), payload)
         IN IF v = "" THEN rest
            ELSE IF rest = "" THEN v
            ELSE v \o "|" \o rest

\* the payload key of a customer detail is there with the detail's value, when the
\* customer supplied it, and only then
CustomerKey(payload, key, value) ==
    IF value = "" THEN key \notin DOMAIN payload
    ELSE key \in DOMAIN payload /\ payload[key] = value

C34_PaymentsReferToOrders == \A q \in payments : q.order_id \in DOMAIN orders


\* C35: a checkout request without orderId that fails on the gateway configuration
\* leaves the orders as they were before the request.
C35_FailedCheckoutStoresNothing ==
    \A w \in Workers :
        (/\ result[w].op = "payway_checkout"
         /\ result[w].body.orderId = NoId
         /\ Misconfigured(result[w].config)
         /\ result[w].error = "PaywayError")
        => orders = result[w].before


\* the payload names no transaction id under any spelling
Unlabelled(p) ==
    /\ ~Truthy(p.tran_id) /\ ~Truthy(p.transaction_id)
    /\ ~Truthy(p.transactionId) /\ ~Truthy(p.trans_id)

\* the rows recorded for an order id from callbacks without a transaction id: their
\* tran_id is no id of the gateway
UnlabelledRows(oid) == {t \in transactions : t.order_id = oid /\ Len(t.tran_id) # 1}

\* C36: per order id at most one callback without a transaction id of its own is ever
\* recorded: a second one for the same order id, whatever its status, fails, adds no
\* Transaction row and leaves the orders as the first left them.
C36_OneUnlabelledCallbackPerOrder ==
    /\ [](\A t \in transactions : Cardinality(UnlabelledRows(t.order_id)) <= 1)
    /\ [][\A p \in FallbackPayloads :
            (/\ RegisterTransaction("w1", p)
             /\ Unlabelled(p)
             /\ UnlabelledRows(PayloadOrderId(p)) # {})
            => /\ result'["w1"].outcome = "integrity"
               /\ transactions' = transactions
               /\ orders' = orders
               /\ payments' = payments]_vars

\* a success callback refused after a failed one was recorded for the same stored order,
\* which stays failed
C36_Witness ==
    /\ result["w1"].op = RT
    /\ result["w1"].outcome = "integrity"
    /\ Unlabelled(result["w1"].payload)
    /\ result["w1"].payload.status = "success"
    /\ PayloadOrderId(result["w1"].payload) \in DOMAIN orders
    /\ orders[PayloadOrderId(result["w1"].payload)].status = "failed"
    /\ \E t \in transactions : t.order_id = PayloadOrderId(result["w1"].payload)
                               /\ t.status = "failed"


\* the worker has delivered a callback, or is in the middle of delivering one
Delivers(w) == result[w].op = RT \/ req[w].op = RT

\* C37: of two requests at a time delivering callbacks with one transaction id, one
\* commits its Transaction row and the other fails and leaves the transactions, the
\* orders and the payments as they were; the store holds exactly one Transaction row
\* and at most one Payment row of that id.
C37_OneWinnerPerTranId ==
    /\ []((\E w \in Workers : Delivers(w))
            => /\ Cardinality(TransactionsFor(<<"T1">>)) = 1
               /\ Cardinality(PaymentsFor(<<"T1">>)) <= 1)
    /\ [][\A w \in {"w1", "w2"}, p \in RacePayloads :
            (RegisterTransaction(w, p) /\ TransactionsFor(<<"T1">>) # {})
            => /\ result'[w].outcome = "integrity"
               /\ transactions' = transactions
               /\ orders' = orders
               /\ payments' = payments]_vars

\* a failure callback refused while the request that delivered the success callback of
\* the same id is still on its way to the payment; the order is paid
C37_Witness ==
    /\ pc["w1"] \in {"pay_lookup", "pay_commit"}
    /\ req["w1"].payload.status = "success"
    /\ result["w2"].op = RT
    /\ result["w2"].outcome = "integrity"
    /\ result["w2"].payload.status = "failed"
    /\ orders[PayloadOrderId(result["w2"].payload)].status = "paid"
    /\ payments = {}

=============================================================================
